---- MODULE Spec2Model ----
(***************************************************************************)
(* A model of the sparse rail generator of baselines/flatland1             *)
(* (SparseRailGen.generate and the functions it calls).  One generate call *)
(* is a run of the state machine: the call is cut into steps at its random *)
(* draws; every other step is a whole function of the source.              *)
(*                                                                         *)
(* Coordinates are <<row, col>>.  Directions are 0..3 = N, E, S, W         *)
(* (Grid4TransitionsEnum).  Python lists are sequences, so the source's    *)
(* 0-based index k is k+1 here; city indices are 1..N.                     *)
(***************************************************************************)
EXTENDS Integers, Sequences, FiniteSets, TLC

\* ---------------------------------------------------------------- bounds
MaxNumCities == 5
MaxRailPairs == 2
MaxRailsBetween == 2
MaxSeed == 1
MaxResets == 1
MaxReplacements == 2
MaxCalls == 2
MaxFaults == 2
MaxAgents == 2
MaxEarliest == 2
MaxDuration == 2
MaxGeneratorCalls == 3
MaxGeneratorResets == 1
MaxTravelTime == 3
MaxLatticeRow == 1
MaxLatticeCol == 3
MaxFixCells == 2
MaxSide == 36

\* seed=None / np_random=None (seeds of RandomState are never negative)
None == -1

\* ------------------------------------------------------ program constants
min_nr_rail_pairs_in_city == 1
city_padding == 2
number_of_out_rails == 2
max_num_broken_steps == 50
grid_padding == 2

\* --------------------------------------------------------------- helpers
Abs(x) == IF x < 0 THEN -x ELSE x
Min2(a, b) == IF a < b THEN a ELSE b
Max2(a, b) == IF a > b THEN a ELSE b
Range(s) == {s[k] : k \in DOMAIN s}

\* math.ceil(a / b) for a >= 0, b > 0
CeilDiv(a, b) == (a + b - 1) \div b

\* int(np.ceil(np.sqrt(a / b))) for a >= 0, b > 0: the least k with k*k >= a/b
CeilSqrtFrac(a, b) == CHOOSE k \in 0..(a + 1) : k * k * b >= a /\ \A j \in 0..(k - 1) : j * j * b < a

\* Vec2dOperations.get_manhattan_distance
get_manhattan_distance(a, b) == Abs(a[1] - b[1]) + Abs(a[2] - b[2])

\* Chebyshev distance of two cells (used by the properties only)
Chebyshev(a, b) == Max2(Abs(a[1] - b[1]), Abs(a[2] - b[2]))

\* flatland.core.grid.grid4_utils.direction_to_point: the axis with the larger
\* squared difference (np.argmax: the row axis on a tie), and its sign
direction_to_point(pos1, pos2) ==
    LET d0 == pos1[1] - pos2[1]
        d1 == pos1[2] - pos2[2]
    IN  IF d1 * d1 > d0 * d0
        THEN (IF d1 > 0 THEN 3 ELSE 1)
        ELSE (IF d0 > 0 THEN 0 ELSE 2)

\* SparseRailGen.argsort: sorted(range(len(seq)), key=seq.__getitem__), which
\* is stable: equal keys keep their index order
argsort(seq) ==
    LET n == Len(seq)
        Before(j, i) == seq[j] < seq[i] \/ (seq[j] = seq[i] /\ j < i)
    IN  [k \in 1..n |-> CHOOSE i \in 1..n : Cardinality({j \in 1..n : Before(j, i)}) = k - 1]

\* np.argsort (default kind, not stable): the order of equal keys is a property
\* of the numpy build; "asc" keeps index order, "desc" reverses it
np_argsort(seq, ties) ==
    LET n == Len(seq)
        Before(j, i) == seq[j] < seq[i] \/ (seq[j] = seq[i] /\ (IF ties = "asc" THEN j < i ELSE j > i))
    IN  [k \in 1..n |-> CHOOSE i \in 1..n : Cardinality({j \in 1..n : Before(j, i)}) = k - 1]

\* np.linspace(start, stop, num, dtype=int)[k] for 0 <= k < num (exact arithmetic,
\* truncated toward zero; all values here are >= 0)
linspace(start, stop, num, k) ==
    IF num = 1 THEN start
    ELSE IF k = num - 1 THEN stop
    ELSE start + ((k * (stop - start)) \div (num - 1))

\* ---------------------------------------------------------------- inputs
\* <<height, width>> of the grids generate is called with: too small for any
\* city, one city, and the smallest grids holding 2, 3 and 4 cities of radius 3
\* and 4 (random placement enumerates every layout of these)
Sizes == {<<1, 1>>, <<9, 34>>, <<10, 17>>, <<10, 18>>, <<10, 27>>, <<18, 18>>, <<12, 22>>, <<22, 22>>}

\* tall narrow grids, used with grid_mode only (their random layouts are too many)
GridSizes == {<<34, 16>>, <<26, 10>>}

\* the configurations of the layout checks: every size, city count, rail-pair
\* count and placement mode, drawing from a generator the caller passes in
LayoutConfigs ==
    {c \in [size : Sizes \cup GridSizes, max_num_cities : 1..MaxNumCities,
            max_rail_pairs_in_city : 0..MaxRailPairs, max_rails_between_cities : {MaxRailsBetween},
            grid_mode : BOOLEAN, seed : {None}, num_resets : {0}, np_random : {1}] :
        (c.size \in GridSizes => c.grid_mode) /\ (c.size = <<22, 22>> => c.max_rail_pairs_in_city = 2)}

\* the configurations of the seeding checks: every seed, reset count and
\* np_random argument, on one grid that holds three cities
RngConfigs ==
    [size : {<<10, 27>>}, max_num_cities : {3},
     max_rail_pairs_in_city : {1}, max_rails_between_cities : 1..MaxRailsBetween,
     grid_mode : BOOLEAN, seed : {None} \cup (0..MaxSeed), num_resets : 0..MaxResets,
     np_random : {None, 1}]

Configs == LayoutConfigs \cup RngConfigs

\* connect_rail_in_grid_map returns the cells of the path it drew: the whole
\* path, no cell, or a path that does not start and end where it was asked to
LineOutcomes == {"path", "empty", "mismatch"}

\* the configurations with obstructed paths: three cities of one rail pair on
\* the 10 x 27 grid
RoutingConfigs ==
    {c \in LayoutConfigs : c.size = <<10, 27>> /\ c.max_num_cities = 3 /\ c.max_rail_pairs_in_city = 1}

\* in a configuration with obstructed paths each of the first MaxFaults path
\* requests finds any outcome; in the others every path is found
PathFaults(c) ==
    IF c \in RoutingConfigs THEN [1..MaxFaults -> LineOutcomes] ELSE {<<>>}

\* the configurations of the repeated calls: seeded objects, on a grid that
\* holds three cities and, for the clique test, on one that holds two
TwoCallConfigs ==
    {c \in RngConfigs : c.seed # None /\ c.num_resets = 0 /\ c.max_rails_between_cities = MaxRailsBetween}
    \cup [size : {<<10, 18>>}, max_num_cities : {MaxNumCities},
          max_rail_pairs_in_city : {1}, max_rails_between_cities : {MaxRailsBetween},
          grid_mode : {FALSE}, seed : 0..MaxSeed, num_resets : {0}, np_random : {None}]

\* ----------------------------------------------------------------- state
VARIABLES
    \* the generator object (SparseRailGen.__init__)
    max_num_cities, grid_mode, max_rails_between_cities, max_rail_pairs_in_city, seed,
    \* the numpy build: how np.argsort orders equal keys
    argsort_ties,
    \* the arguments of the generate call
    width, height, num_resets, np_random_arg,
    \* the locals of generate
    np_random,            \* the RandomState in use: [kind, seed]
    global_draws,         \* values drawn from the process-global np.random
    draws,                \* values drawn from a seeded np_random, in order: [n, v]
    rail_pairs_in_city, rails_between_cities, city_radius, max_feasible_cities,
    city_positions, allowed_grid, warnings, replacements,
    inner_connection_points, outer_connection_points, city_orientations,
    set_of_connections, requests, free_rails, train_stations,
    new_lines,            \* what each path request drew, and the warning it gave
    pc, error,
    \* the grid the paths are drawn on: what the k-th connect_rail_in_grid_map
    \* call of _connect_cities finds (calls beyond its length find their path)
    path_faults,
    \* SparseLineGen.generate: its argument, its lists and its locals
    num_agents, agents_position, agents_target, agents_direction,
    city1, city2, station_idx,   \* station_idx: the four station indices
    feasible_orientations,       \* per agent, the orientations check_path_exists confirmed
    line_pc, line_error,
    \* single_malfunction_generator: its arguments and the state of its closure
    earlierst_malfunction, malfunction_duration, global_nr_malfunctions, malfunction_calls,
    \* the calls made on the malfunction generators
    generator_call,       \* the last call: [generator, reset, eligible, position, returned]
    calls_since_reset,    \* per agent handle, the calls since the last reset
    eligible_calls,       \* the calls since the last reset that met the condition of line 238
    nonzero_returns,      \* the calls since the last reset that returned a malfunction
    generator_resets,     \* the calls with reset=True
    malfunctions_total,   \* the malfunctions returned since the generator was built
    \* contains_cliques called on its own: its argument, the index i of its loop
    \* and what the iteration found
    clique_positions, clique_i, clique3_found, clique_result, clique_pc,
    \* _fix_transitions called on its own: its arguments, its locals, and the
    \* calls it has made on the grid, in order
    fix_city_cells, fix_inter_city_lines, vector_field, rails_to_fix, rails_fixed, fix_log, fix_pc,
    \* earlier calls on the same object
    calls, prev

\* what a generate call does not write
lineVars == <<num_agents, agents_position, agents_target, agents_direction, city1, city2, station_idx,
              feasible_orientations, line_pc, line_error>>
malfunctionVars == <<earlierst_malfunction, malfunction_duration, global_nr_malfunctions, malfunction_calls,
                     generator_call, calls_since_reset, eligible_calls, nonzero_returns, generator_resets,
                     malfunctions_total>>
cliqueVars == <<clique_positions, clique_i, clique3_found, clique_result, clique_pc>>
fixVars == <<fix_city_cells, fix_inter_city_lines, vector_field, rails_to_fix, rails_fixed, fix_log, fix_pc>>
envVars == <<path_faults, lineVars, malfunctionVars, cliqueVars, fixVars>>
objVars == <<max_num_cities, grid_mode, max_rails_between_cities, max_rail_pairs_in_city, seed, argsort_ties, envVars>>
argVars == <<width, height, num_resets, np_random_arg>>
rngVars == <<np_random, global_draws, draws>>
sizeVars == <<rail_pairs_in_city, rails_between_cities, city_radius, max_feasible_cities>>
placeVars == <<city_positions, allowed_grid, replacements>>
planVars == <<inner_connection_points, outer_connection_points, city_orientations>>
connVars == <<set_of_connections, requests, new_lines>>
innerVars == <<free_rails, train_stations>>
histVars == <<calls, prev>>
vars == <<objVars, argVars, rngVars, sizeVars, placeVars, planVars, connVars, innerVars, warnings, pc, error, histVars>>

NoRng == [kind |-> "none", seed |-> None]
NoPrev == [valid |-> FALSE]

\* the locals of a call that has not started
FreshLocals ==
    /\ np_random = NoRng /\ global_draws = 0 /\ draws = <<>>
    /\ rail_pairs_in_city = 0 /\ rails_between_cities = 0 /\ city_radius = 0
    /\ max_feasible_cities = 0
    /\ city_positions = <<>> /\ allowed_grid = {} /\ replacements = 0
    /\ inner_connection_points = <<>> /\ outer_connection_points = <<>>
    /\ city_orientations = <<>>
    /\ set_of_connections = {} /\ requests = <<>> /\ new_lines = <<>>
    /\ free_rails = <<>> /\ train_stations = <<>>
    /\ warnings = {} /\ pc = "idle" /\ error = "none"

\* SparseLineGen.generate, lines 114-116: no station index is assigned yet
NoStationIdx ==
    [agent_start_idx |-> None, agent_target_idx |-> None,
     next_agent_start_idx |-> None, next_agent_target_idx |-> None]

\* the line generator has not been called
LineIdle ==
    /\ num_agents = 0
    /\ agents_position = <<>> /\ agents_target = <<>> /\ agents_direction = <<>>
    /\ city1 = None /\ city2 = None /\ station_idx = NoStationIdx
    /\ feasible_orientations = <<>>
    /\ line_pc = "idle" /\ line_error = "none"

\* the agent handles of the malfunction calls
Handles == {0, 1}

NoGeneratorCall ==
    [generator |-> "none", reset |-> FALSE, eligible |-> FALSE, position |-> "none", returned |-> 0]

\* single_malfunction_generator, lines 209-212: the closure as it is built; no
\* malfunction generator has been called (a handle that is not a key of the
\* dict malfunction_calls has the count 0)
MalfunctionFresh ==
    /\ global_nr_malfunctions = 0
    /\ malfunction_calls = [h \in Handles |-> 0]
    /\ generator_call = NoGeneratorCall
    /\ calls_since_reset = [h \in Handles |-> 0]
    /\ eligible_calls = 0 /\ nonzero_returns = 0 /\ generator_resets = 0 /\ malfunctions_total = 0

InitRail(cfgs) ==
    /\ \E c \in cfgs :
        /\ height = c.size[1] /\ width = c.size[2]
        /\ max_num_cities = c.max_num_cities
        /\ max_rail_pairs_in_city = c.max_rail_pairs_in_city
        /\ max_rails_between_cities = c.max_rails_between_cities
        /\ grid_mode = c.grid_mode
        /\ seed = c.seed /\ num_resets = c.num_resets /\ np_random_arg = c.np_random
        /\ path_faults \in PathFaults(c)
    /\ argsort_ties \in (IF ~grid_mode /\ max_num_cities > 4 THEN {"asc", "desc"} ELSE {"asc"})
    /\ calls = 1 /\ prev = NoPrev
    /\ FreshLocals
    /\ LineIdle

\* contains_cliques has not been called on its own
CliqueIdle ==
    /\ clique_positions = <<>> /\ clique_i = 0 /\ clique3_found = FALSE
    /\ clique_result = FALSE /\ clique_pc = "idle"

\* the cells of the grid that _fix_transitions is run on
FixCells == {<<1, 1>>, <<1, 2>>, <<2, 1>>}

\* _fix_transitions has not been called on its own
FixIdle ==
    /\ fix_city_cells = <<>> /\ fix_inter_city_lines = <<>>
    /\ vector_field = [c \in FixCells |-> -1]
    /\ rails_to_fix = <<>> /\ rails_fixed = 0 /\ fix_log = <<>> /\ fix_pc = "idle"

\* the objects of the rail and line checks, with a malfunction generator that
\* is never called
InitFrom(cfgs) ==
    /\ InitRail(cfgs)
    /\ CliqueIdle
    /\ FixIdle
    /\ earlierst_malfunction = 1 /\ malfunction_duration = 1
    /\ MalfunctionFresh

Init == InitFrom(Configs)

\* ------------------------------------------------------- random numbers
\* a selection that never reads the np_random argument
SelectRng_IgnoresArg(self_seed, resets, arg) ==
    IF self_seed # None THEN [kind |-> "seeded", seed |-> self_seed]
    ELSE [kind |-> "global", seed |-> None]

\* a selection that seeds with seed + num_resets
SelectRng_PerReset(self_seed, resets, arg) ==
    IF self_seed # None THEN [kind |-> "seeded", seed |-> self_seed + resets]
    ELSE IF arg # None THEN [kind |-> "arg", seed |-> None]
    ELSE [kind |-> "global", seed |-> None]

\* generate, lines 115-118: the RandomState the call draws from
SelectRng(self_seed, resets, arg) ==
    IF self_seed # None THEN [kind |-> "seeded", seed |-> self_seed]
    ELSE IF arg # None THEN [kind |-> "arg", seed |-> None]
    ELSE [kind |-> "global", seed |-> None]

\* RandomState(s) is a function of s: a call that seeds as an earlier call on
\* this object did, and asks for the same range at the same place of the
\* stream, gets the value the earlier call got.  Every other draw is free.
Replaying == prev.valid /\ np_random.kind = "seeded" /\ prev.np_random = np_random

\* the values np_random.randint(n) can return at this point of the stream
DrawSet(drawn, n) ==
    LET k == Len(drawn) + 1
    IN  IF Replaying /\ k <= Len(prev.draws) /\ prev.draws[k].n = n
        THEN {prev.draws[k].v}
        ELSE 0..(n - 1)

\* the log of the stream: kept for a RandomState(seed) only, the one stream a
\* later call can reproduce
Drawn(drawn, n, v) == IF np_random.kind = "seeded" THEN Append(drawn, [n |-> n, v |-> v]) ELSE drawn

\* ------------------------------------------------------ sizes of a call
\* generate, lines 124-126
RailPairsInCity(mrp) == IF mrp < min_nr_rail_pairs_in_city THEN min_nr_rail_pairs_in_city ELSE mrp
RailsBetweenCities(mrbc, rp) == IF mrbc > rp * 2 THEN rp * 2 ELSE mrbc

\* generate, lines 131-133: int(np.ceil((rail_pairs_in_city*2) / 2)) + city_padding
CityRadius(rp) == CeilDiv(rp * 2, 2) + city_padding

\* generate, lines 138-139 (// is floor division, as \div is)
MaxFeasibleCities(mnc, r, w, h) ==
    Min2(mnc, ((h - 2) \div (2 * (r + 1))) * ((w - 2) \div (2 * (r + 1))))

\* a test that also rejects two cities
Infeasible_BelowThree(mfc) == mfc < 3

\* generate, line 141
Infeasible(mfc) == mfc < 2

\* ------------------------------------------------------------ placement
\* an allowed grid that keeps the city radius only from the border
InitialAllowedGrid_NoMargin(r, w, h) ==
    {<<row, col>> \in (0..(h - 1)) \X (0..(w - 1)) :
        /\ r <= row /\ row < h - r
        /\ r <= col /\ col < w - r}

\* _generate_random_city_positions, lines 261-265: the cells far enough from
\* the border (a numpy slice [p:-p] of an axis of length n is p..n-p-1)
InitialAllowedGrid(r, w, h) ==
    LET city_radius_pad1 == r + 1
    IN  {<<row, col>> \in (0..(h - 1)) \X (0..(w - 1)) :
            /\ city_radius_pad1 <= row /\ row < h - city_radius_pad1
            /\ city_radius_pad1 <= col /\ col < w - city_radius_pad1}

\* np.where(allowed_grid == 1) lists the allowed cells row by row; this is the
\* (0-based) index of an allowed cell in that list
PointIndex(allowed, cell) ==
    Cardinality({a \in allowed : a[1] < cell[1] \/ (a[1] = cell[1] /\ a[2] < cell[2])})

\* a mask that blocks one city square only
BlockedBy_OneSquare(cell, r) ==
    {c \in ((cell[1] - r)..(cell[1] + r)) \X ((cell[2] - r)..(cell[2] + r)) : TRUE}

\* _generate_random_city_positions, lines 278-283: the cells blocked by a city
BlockedBy(cell, r) ==
    LET city_radius_pad1 == r + 1
        row_start == Max2(0, cell[1] - 2 * city_radius_pad1)
        col_start == Max2(0, cell[2] - 2 * city_radius_pad1)
        row_end == cell[1] + 2 * city_radius_pad1 + 1
        col_end == cell[2] + 2 * city_radius_pad1 + 1
    IN  {c \in (row_start..(row_end - 1)) \X (col_start..(col_end - 1)) : TRUE}

\* _generate_evenly_distr_city_positions, lines 314-337
generate_evenly_distr_city_positions(num_cities, r, w, h) ==
    LET city_size == 2 * (r + 1)
        max_cities_per_row == (h - grid_padding) \div city_size
        max_cities_per_col == (w - grid_padding) \div city_size
        \* int(np.ceil(np.sqrt(num_cities * aspect_ratio))), aspect_ratio = height / width
        cities_per_row == Min2(CeilSqrtFrac(num_cities * h, w), max_cities_per_row)
        cities_per_col == Min2(CeilDiv(num_cities, cities_per_row), max_cities_per_col)
        num_build_cities == Min2(num_cities, cities_per_col * cities_per_row)
        row_position(k) == linspace(r + 2, h - (r + 2), cities_per_row, k)
        col_position(k) == linspace(r + 2, w - (r + 2), cities_per_col, k)
    IN  [city_idx \in 1..num_build_cities |->
            <<row_position((city_idx - 1) % cities_per_row),
              col_position((city_idx - 1) \div cities_per_row)>>]

\* ------------------------------------------------------------- cliques
\* sorted(S) for a set of integers
SortSet(S) == [k \in 1..Cardinality(S) |-> CHOOSE x \in S : Cardinality({y \in S : y < x}) = k - 1]

\* build_clique3, lines 196-201: the sorted first three entries of a row
build_clique3(index_array, index) ==
    SortSet({index_array[index][1], index_array[index][2], index_array[index][3]})

\* contains_cliques, lines 211-217
SortIndex(positions, ties) ==
    [i \in 1..Len(positions) |->
        np_argsort([j \in 1..Len(positions) |-> get_manhattan_distance(positions[i], positions[j])], ties)]

\* contains_cliques, lines 219-230: the body of the loop over i
CliqueAt(sort_index, i) ==
    LET clique3 == build_clique3(sort_index, i)
        clique31 == build_clique3(sort_index, clique3[2])
        clique32 == build_clique3(sort_index, clique3[3])
        cluster == Range(clique3) \cup Range(clique31) \cup Range(clique32)
    IN  IF clique3 = clique31 /\ clique3 = clique32 THEN TRUE
        ELSE IF Cardinality(cluster) = 4
             THEN LET additional_element == CHOOSE x \in cluster \ Range(clique3) : TRUE
                      clique33 == build_clique3(sort_index, additional_element)
                  IN  Range(clique33) \subseteq cluster
             ELSE FALSE

\* contains_cliques, lines 219-222: the 3-clique test of the iteration for i
Clique3At(sort_index, i) ==
    LET clique3 == build_clique3(sort_index, i)
        clique31 == build_clique3(sort_index, clique3[2])
        clique32 == build_clique3(sort_index, clique3[3])
    IN  clique3 = clique31 /\ clique3 = clique32

\* contains_cliques raises IndexError at index_array[index][2] when a row of
\* sort_index has fewer than three entries
contains_cliques_raises(positions) == Len(positions) \in {1, 2}

\* contains_cliques, lines 203-231
contains_cliques(positions, ties) ==
    \E i \in 1..Len(positions) : CliqueAt(SortIndex(positions, ties), i)

\* ---------------------------------------------------- connection points
\* np.clip(x, 0, 1)
Clip01(x) == IF x < 0 THEN 0 ELSE IF x > 1 THEN 1 ELSE x

\* an offset that is the same on both halves of the slots
InnerPointOffset_NoClip(k, nr_of_connection_points) ==
    Abs(k - (nr_of_connection_points \div 2)) + 1

\* _generate_city_connection_points, lines 420-423: inner_point_offset[k], how
\* far the inner point of slot k lies inside the border
InnerPointOffset(k, nr_of_connection_points) ==
    LET offset_distances == k - (nr_of_connection_points \div 2)
    IN  Abs(offset_distances) + Clip01(offset_distances) + 1

\* _generate_city_connection_points, lines 404-451, for one city: the inner and
\* outer points of each side, in the order they are appended
ConnectionPoints(city_position, r, orientation, nr_of_connection_points) ==
    LET connections_per_direction ==
            [d \in 0..3 |-> IF d = orientation \/ d = (orientation + 2) % 4
                            THEN nr_of_connection_points ELSE 0]
        start_idx == (nr_of_connection_points - number_of_out_rails) \div 2
        connection_slots(k) == k - start_idx
        inner_point_offset(k) == InnerPointOffset(k, nr_of_connection_points)
        tmp_coordinates(d, k) ==
            CASE d = 0 -> <<city_position[1] - r + inner_point_offset(k), city_position[2] + connection_slots(k)>>
              [] d = 1 -> <<city_position[1] + connection_slots(k), city_position[2] + r - inner_point_offset(k)>>
              [] d = 2 -> <<city_position[1] + r - inner_point_offset(k), city_position[2] + connection_slots(k)>>
              [] d = 3 -> <<city_position[1] + connection_slots(k), city_position[2] - r + inner_point_offset(k)>>
        out_tmp_coordinates(d, k) ==
            CASE d = 0 -> <<city_position[1] - r, city_position[2] + connection_slots(k)>>
              [] d = 1 -> <<city_position[1] + connection_slots(k), city_position[2] + r>>
              [] d = 2 -> <<city_position[1] + r, city_position[2] + connection_slots(k)>>
              [] d = 3 -> <<city_position[1] + connection_slots(k), city_position[2] - r>>
        \* the slots with an outer point: range(start_idx, start_idx + number_of_out_rails)
        out_slots(d) == {k \in 0..(connections_per_direction[d] - 1) :
                            start_idx <= k /\ k < start_idx + number_of_out_rails}
    IN  [inner |-> [d \in 0..3 |-> [k \in 1..connections_per_direction[d] |-> tmp_coordinates(d, k - 1)]],
         outer |-> [d \in 0..3 |-> [j \in 1..Cardinality(out_slots(d)) |->
                        out_tmp_coordinates(d, SortSet(out_slots(d))[j])]]]

\* _generate_city_connection_points, lines 387-398: the side facing the closest
\* other city (closest_neighb_idx[1]); an IndexError when there is no other city
ClosestNeighbIdx(positions, i) ==
    argsort([j \in 1..Len(positions) |-> get_manhattan_distance(positions[i], positions[j])])

ClosestDirection(positions, i) ==
    direction_to_point(positions[i], positions[ClosestNeighbIdx(positions, i)[2]])

\* a count that is not doubled
NrOfConnectionPoints_Single(v) == 1 + v

\* _generate_city_connection_points, line 408: randint(1, rail_pairs_in_city + 1) * 2
NrOfConnectionPoints(v) == (1 + v) * 2

\* ------------------------------------------------------- _connect_cities
\* list.remove(x): the list without its first element equal to x
RemoveFirst(seq, x) ==
    LET at == CHOOSE k \in 1..Len(seq) : seq[k] = x /\ \A j \in 1..(k - 1) : seq[j] # x
    IN  [k \in 1..(Len(seq) - 1) |-> IF k < at THEN seq[k] ELSE seq[k + 1]]

\* lines 508-519 (and 609-620): the scan of the target city's points, side by
\* side and in list order, keeping the first point of least distance
ClosestPoint(copy, point) ==
    LET cands == {c \in (0..3) \X (1..number_of_out_rails) : c[2] <= Len(copy[c[1]])}
        dist(c) == get_manhattan_distance(point, copy[c[1]][c[2]])
        First(c, e) == c[1] < e[1] \/ (c[1] = e[1] /\ c[2] <= e[2])
        best == CHOOSE c \in cands : \A e \in cands : dist(c) < dist(e) \/ (dist(c) = dist(e) /\ First(c, e))
    IN  [point |-> copy[best[1]][best[2]], direction |-> best[1]]

\* lines 540-549 (and 642-651): the test that orders the two path requests
Crossing(city_direction, neighbour_connection_point, last_city_out_connection_point) ==
    \/ /\ city_direction \in {0, 1}
       /\ \/ /\ neighbour_connection_point[1] < last_city_out_connection_point[1]
             /\ neighbour_connection_point[2] > last_city_out_connection_point[2]
          \/ /\ neighbour_connection_point[1] > last_city_out_connection_point[1]
             /\ neighbour_connection_point[2] < last_city_out_connection_point[2]
    \/ /\ city_direction \in {2, 3}
       /\ \/ /\ neighbour_connection_point[1] < last_city_out_connection_point[1]
             /\ neighbour_connection_point[2] < last_city_out_connection_point[2]
          \/ /\ neighbour_connection_point[1] > last_city_out_connection_point[1]
             /\ neighbour_connection_point[2] > last_city_out_connection_point[2]

\* one call of connect_rail_in_grid_map(grid_map, start, end, ...), made while
\* connecting possible_connection = [from, to]
PathRequest(start, end, from, to) == [start |-> start, end |-> end, from |-> from, to |-> to]

\* a test that never finds the reversed pair
AlreadyConnected_Never(conns, cur, nbr) == FALSE

\* lines 526 (and 626): the connection is drawn unless the reversed pair is recorded
AlreadyConnected(conns, cur, nbr) == <<nbr, cur>> \in conns

\* one iteration of the loop over the outer points of the out side, lines
\* 506-603 (and 607-709).  st holds the locals that live across iterations:
\* i, the deep copy of the target's points, set_of_connections, the requests
\* made, and neighbour_connection_point (ncp), next_neighbour_connection_point
\* (nncp), last_city_out_connection_point (last), city_direction (cdir),
\* possible_connection (poss).  nbrK is the place of the target in
\* closest_neighb_idx.
PointIteration(positions, cur, cni, nbrK, city_out_connection_point, st) ==
    IF st.i % 2 = 0
    THEN IF Len(cni) < nbrK THEN [st EXCEPT !.error = "IndexError"]
         ELSE IF \A d \in 0..3 : st.copy[d] = <<>> THEN [st EXCEPT !.error = "UnboundLocalError"]
         ELSE
         LET nbr == cni[nbrK]
             best == ClosestPoint(st.copy, city_out_connection_point)
             city_direction == direction_to_point(positions[cur], city_out_connection_point)
             neighbour_direction == direction_to_point(positions[nbr], best.point)
             side == st.copy[best.direction]
             swap == (city_direction + neighbour_direction) \in {1, 5} \/ city_direction = neighbour_direction
             ncp == IF swap THEN side[2] ELSE side[1]
             nncp == IF swap THEN side[1] ELSE side[2]
         IN  IF ~AlreadyConnected(st.conns, cur, nbr)
             THEN IF Len(side) < 2 THEN [st EXCEPT !.error = "IndexError"]
                  ELSE [st EXCEPT !.copy = [st.copy EXCEPT ![best.direction] = RemoveFirst(side, ncp)],
                                  !.ncp = ncp, !.nncp = nncp, !.last = city_out_connection_point,
                                  !.cdir = city_direction, !.poss = <<cur, nbr>>,
                                  !.i = st.i + 1]
             ELSE [st EXCEPT !.ncp = best.point, !.cdir = city_direction, !.poss = <<cur, nbr>>,
                             !.i = st.i + 2]
    ELSE LET first == PathRequest(st.last, st.ncp, st.poss[1], st.poss[2])
             second == PathRequest(city_out_connection_point, st.nncp, st.poss[1], st.poss[2])
         IN  [st EXCEPT !.reqs = IF Crossing(st.cdir, st.ncp, st.last)
                                 THEN st.reqs \o <<second, first>>
                                 ELSE st.reqs \o <<first, second>>,
                        !.conns = st.conns \cup {st.poss},
                        !.i = st.i + 1]

RECURSIVE PointLoop(_, _, _, _, _, _, _)
PointLoop(positions, cur, cni, nbrK, points, k, st) ==
    IF st.error # "none" \/ k > Len(points) THEN st
    ELSE PointLoop(positions, cur, cni, nbrK, points, k + 1,
                   PointIteration(positions, cur, cni, nbrK, points[k], st))

\* lines 504-603 (and 605-709): one pass over the out side, on a fresh deep copy
ConnectPass(positions, cp, cur, cni, nbrK, out_direction, st) ==
    LET copy == IF Len(cni) < nbrK THEN [d \in 0..3 |-> <<>>] ELSE cp[cni[nbrK]]
    IN  PointLoop(positions, cur, cni, nbrK, cp[cur][out_direction], 1, [st EXCEPT !.copy = copy])

\* lines 489-709: the body of the loop over the cities, for city cur
ConnectCity(positions, cp, cur, acc) ==
    LET cni == ClosestNeighbIdx(positions, cur)
        st0 == [i |-> 0, copy |-> [d \in 0..3 |-> <<>>], conns |-> acc.conns, reqs |-> acc.reqs,
                error |-> "none", ncp |-> <<0, 0>>, nncp |-> <<0, 0>>, last |-> <<0, 0>>,
                cdir |-> 0, poss |-> <<0, 0>>]
        done(st) == [conns |-> st.conns, reqs |-> st.reqs, error |-> st.error]
    IN  IF Len(cni) < 2 THEN [acc EXCEPT !.error = "IndexError"]
        ELSE
        LET towards1 == direction_to_point(positions[cur], positions[cni[2]])
            empty1 == cp[cur][towards1] = <<>>
        IN  IF ~empty1 /\ Len(cni) < 3 THEN [acc EXCEPT !.error = "IndexError"]
            ELSE
            LET closest_direction == IF empty1 THEN (towards1 + 1) % 4 ELSE towards1
                towards2 == direction_to_point(positions[cur], positions[cni[3]])
                second_closest_direction ==
                    IF empty1 THEN (closest_direction + 2) % 4
                    ELSE IF cp[cur][towards2] = <<>> THEN (closest_direction + 2) % 4
                    ELSE towards2
                st1 == ConnectPass(positions, cp, cur, cni, 2, closest_direction, st0)
            IN  IF st1.error # "none" \/ closest_direction = second_closest_direction THEN done(st1)
                ELSE done(ConnectPass(positions, cp, cur, cni, 3, second_closest_direction, st1))

RECURSIVE ConnectFrom(_, _, _, _)
ConnectFrom(positions, cp, cur, acc) ==
    IF acc.error # "none" \/ cur > Len(positions) THEN acc
    ELSE ConnectFrom(positions, cp, cur + 1, ConnectCity(positions, cp, cur, acc))

\* _connect_cities, lines 483-710: set_of_connections, the path requests in the
\* order they are made, and the exception that ends the function, if any
connect_cities(positions, cp) ==
    ConnectFrom(positions, cp, 1, [conns |-> {}, reqs |-> <<>>, error |-> "none"])

\* the cells of a city without its border ring
get_cells_in_city_Interior(center, radius) ==
    ((center[1] - radius + 1)..(center[1] + radius - 1)) \X ((center[2] - radius + 1)..(center[2] + radius - 1))

\* _get_cells_in_city, lines 965-972: the cells of the square centre +- radius
\* (the forbidden cells of the inter-city paths)
get_cells_in_city(center, radius) ==
    ((center[1] - radius)..(center[1] + radius)) \X ((center[2] - radius)..(center[2] + radius))

\* ----------------------------------------------------------- inner cities
\* flatland's connect_straight_line_in_grid_map: the cells of the line from
\* start to end, listed from the smaller row (or column) to the larger one;
\* no cells when start and end share neither a row nor a column
connect_straight_line_in_grid_map(start, end) ==
    IF ~(start[1] = end[1] \/ start[2] = end[2]) THEN <<>>
    ELSE IF direction_to_point(start, end) \in {0, 2}
         THEN [k \in 1..(Abs(end[1] - start[1]) + 1) |-> <<Min2(start[1], end[1]) + k - 1, start[2]>>]
         ELSE [k \in 1..(Abs(end[2] - start[2]) + 1) |-> <<start[1], Min2(start[2], end[2]) + k - 1>>]

\* _build_inner_cities, lines 785-799, for one city: the parallel tracks
FreeRailsOf(inner) ==
    LET boarder == CHOOSE i \in 0..3 : Len(inner[i]) > 0 /\ \A j \in 0..(i - 1) : Len(inner[j]) = 0
        opposite_boarder == (boarder + 2) % 4
        nr_of_connection_points == Len(inner[boarder])
    IN  [track_id \in 1..nr_of_connection_points |->
            connect_straight_line_in_grid_map(inner[boarder][track_id], inner[opposite_boarder][track_id])]

\* _build_inner_cities, lines 780-817
build_inner_cities(inner_points) == [c \in 1..Len(inner_points) |-> FreeRailsOf(inner_points[c])]

\* a station on the first track of each city only
set_trainstation_positions_FirstTrack(rails) ==
    [c \in 1..Len(rails) |->
        [t \in 1..1 |-> <<rails[c][t][(Len(rails[c][t]) \div 2) + 1], t - 1>>]]

\* _set_trainstation_positions, lines 839-846: the middle cell of each track
\* (int(len / 2), 0-based) and the track number (0-based)
set_trainstation_positions(rails) ==
    [c \in 1..Len(rails) |->
        [t \in 1..Len(rails[c]) |-> <<rails[c][t][(Len(rails[c][t]) \div 2) + 1], t - 1>>]]

\* --------------------------------------------------------------- warnings
SizeMismatch == "Could not set all required cities"
GridFallback == "Changing to Grid mode to place at least 2 cities"

\* _generate_random_city_positions, lines 287-290
RandomPlacementWarning(created_cites, num_cities) ==
    IF created_cites < num_cities THEN {SizeMismatch} ELSE {}

\* a warning text that is not one of the two of _connect_cities
LineWarning_EmptyOnly(outcome) ==
    IF outcome = "empty" THEN "[WARNING] No line added between stations" ELSE "none"

\* _connect_cities, lines 558-562 (and the same test after every other
\* connect_rail_in_grid_map call): the warning a drawn line gives
LineWarning(outcome) ==
    IF outcome = "empty" THEN "[WARNING] No line added between stations"
    ELSE IF outcome = "mismatch" THEN "[WARNING] Unable to connect requested stations"
    ELSE "none"

\* _connect_cities, lines 551-602: the line each request drew on this grid
NewLines(reqs, faults) ==
    [k \in 1..Len(reqs) |->
        LET outcome == IF k \in DOMAIN faults THEN faults[k] ELSE "path"
        IN  [outcome |-> outcome, warning |-> LineWarning(outcome)]]

\* ---------------------------------------------------------------- actions
Raise(e) == pc' = "raised" /\ error' = e

\* generate, lines 115-152: the call up to the first random draw of placement
Generate ==
    /\ pc = "idle"
    /\ LET rng == SelectRng(seed, num_resets, np_random_arg)
           rp == RailPairsInCity(max_rail_pairs_in_city)
           r == CityRadius(rp)
           mfc == MaxFeasibleCities(max_num_cities, r, width, height)
           evenly == generate_evenly_distr_city_positions(mfc, r, width, height)
       IN  /\ np_random' = rng
           /\ global_draws' = IF rng.kind = "global" THEN global_draws + 1 ELSE global_draws
           /\ rail_pairs_in_city' = rp
           /\ rails_between_cities' = RailsBetweenCities(max_rails_between_cities, rp)
           /\ city_radius' = r
           /\ max_feasible_cities' = mfc
           /\ IF Infeasible(mfc)
              THEN Raise("ValueError") /\ UNCHANGED <<city_positions, allowed_grid, warnings>>
              ELSE IF grid_mode
              THEN /\ city_positions' = evenly
                   /\ pc' = "placed"
                   /\ UNCHANGED <<allowed_grid, warnings, error>>
              ELSE /\ allowed_grid' = InitialAllowedGrid(r, width, height)
                   /\ pc' = "placing"
                   /\ UNCHANGED <<city_positions, warnings, error>>
    /\ UNCHANGED <<objVars, argVars, draws, replacements, planVars, connVars, innerVars, histVars>>

\* _generate_random_city_positions, lines 266-285: one iteration of the loop
RandomPlaceCity ==
    /\ pc = "placing"
    /\ Len(city_positions) < max_feasible_cities
    /\ allowed_grid # {}
    /\ LET num_allowed_points == Cardinality(allowed_grid)
       IN  \E cell \in allowed_grid :
             LET point_index == PointIndex(allowed_grid, cell)
             IN  /\ point_index \in DrawSet(draws, num_allowed_points)
                 /\ draws' = Drawn(draws, num_allowed_points, point_index)
                 /\ allowed_grid' = allowed_grid \ BlockedBy(cell, city_radius)
                 /\ city_positions' = Append(city_positions, cell)
    /\ UNCHANGED <<objVars, argVars, np_random, global_draws, sizeVars, replacements, planVars,
                   connVars, innerVars, warnings, pc, error, histVars>>

\* _generate_random_city_positions, lines 269-270 and 287-291: the loop ends
\* (all cities placed, or no allowed cell is left) and the function returns
RandomPlaceEnd ==
    /\ pc = "placing"
    /\ Len(city_positions) = max_feasible_cities \/ allowed_grid = {}
    /\ warnings' = warnings \cup RandomPlacementWarning(Len(city_positions), max_feasible_cities)
    /\ pc' = IF max_num_cities > 4 THEN "cliques" ELSE "placed"
    /\ UNCHANGED <<objVars, argVars, rngVars, sizeVars, placeVars, planVars, connVars, innerVars,
                   error, histVars>>

\* generate, lines 155-160: the clique test of a random layout; a positive
\* test starts the placement again
CheckCliques ==
    /\ pc = "cliques"
    /\ IF contains_cliques_raises(city_positions)
       THEN Raise("IndexError") /\ UNCHANGED placeVars
       ELSE IF contains_cliques(city_positions, argsort_ties)
       THEN /\ replacements < MaxReplacements
            /\ replacements' = replacements + 1
            /\ city_positions' = <<>>
            /\ allowed_grid' = InitialAllowedGrid(city_radius, width, height)
            /\ pc' = "placing"
            /\ UNCHANGED error
       ELSE pc' = "placed" /\ UNCHANGED <<placeVars, error>>
    /\ UNCHANGED <<objVars, argVars, rngVars, sizeVars, planVars, connVars, innerVars, warnings, histVars>>

\* a count that keeps whatever the placement gave
CountCities_NoFallback ==
    /\ pc = "placed"
    /\ pc' = "planning"
    /\ UNCHANGED <<objVars, argVars, rngVars, sizeVars, placeVars, planVars, connVars, innerVars,
                   warnings, error, histVars>>

\* generate, lines 162-168: fewer than two cities are replaced by the evenly
\* spaced placement
CountCities ==
    /\ pc = "placed"
    /\ IF Len(city_positions) < 2
       THEN LET evenly == generate_evenly_distr_city_positions(max_feasible_cities, city_radius, width, height)
            IN  /\ warnings' = warnings \cup {GridFallback}
                /\ city_positions' = evenly
       ELSE UNCHANGED <<warnings, city_positions>>
    /\ pc' = "planning"
    /\ UNCHANGED <<objVars, argVars, rngVars, sizeVars, allowed_grid, replacements, planVars, connVars,
                   innerVars, error, histVars>>

\* _generate_city_connection_points, lines 384-454: one iteration of the loop
\* over the cities (the orientation is drawn in grid mode, and faces the closest
\* other city otherwise; then the number of connection points is drawn)
CityConnectionPoints ==
    /\ pc = "planning"
    /\ Len(city_orientations) < Len(city_positions)
    /\ LET cur == Len(city_orientations) + 1
       IN  IF ~grid_mode /\ Len(city_positions) < 2
           THEN Raise("IndexError") /\ UNCHANGED <<draws, planVars>>
           ELSE \E current_closest_direction \in
                      (IF grid_mode THEN DrawSet(draws, 4) ELSE {ClosestDirection(city_positions, cur)}) :
                  LET drawn1 == IF grid_mode THEN Drawn(draws, 4, current_closest_direction) ELSE draws
                  IN  \E v \in DrawSet(drawn1, rail_pairs_in_city) :
                        LET points == ConnectionPoints(city_positions[cur], city_radius,
                                                       current_closest_direction, NrOfConnectionPoints(v))
                        IN  /\ draws' = Drawn(drawn1, rail_pairs_in_city, v)
                            /\ city_orientations' = Append(city_orientations, current_closest_direction)
                            /\ inner_connection_points' = Append(inner_connection_points, points.inner)
                            /\ outer_connection_points' = Append(outer_connection_points, points.outer)
                            /\ UNCHANGED <<pc, error>>
    /\ UNCHANGED <<objVars, argVars, np_random, global_draws, sizeVars, placeVars, connVars, innerVars,
                   warnings, histVars>>

\* generate, lines 176-177: _connect_cities, whole
ConnectCities ==
    /\ pc = "planning"
    /\ Len(city_orientations) = Len(city_positions)
    /\ LET res == connect_cities(city_positions, outer_connection_points)
       IN  /\ set_of_connections' = res.conns
           /\ requests' = res.reqs
           /\ new_lines' = NewLines(requests', path_faults)
           /\ warnings' = warnings \cup ({new_lines'[k].warning : k \in 1..Len(new_lines')} \ {"none"})
           /\ IF res.error # "none" THEN Raise(res.error) ELSE pc' = "inner" /\ UNCHANGED error
    /\ UNCHANGED <<objVars, argVars, rngVars, sizeVars, placeVars, planVars, innerVars, histVars>>

\* generate, lines 180-183: _build_inner_cities
BuildInnerCities ==
    /\ pc = "inner"
    /\ free_rails' = build_inner_cities(inner_connection_points)
    /\ pc' = "stations"
    /\ UNCHANGED <<objVars, argVars, rngVars, sizeVars, placeVars, planVars, connVars, train_stations,
                   warnings, error, histVars>>

\* a step that goes on to _fix_transitions without setting the stations
SetTrainstationPositions_Skipped ==
    /\ pc = "stations"
    /\ pc' = "fix"
    /\ UNCHANGED <<objVars, argVars, rngVars, sizeVars, placeVars, planVars, connVars, innerVars,
                   warnings, error, histVars>>

\* generate, line 186: _set_trainstation_positions
SetTrainstationPositions ==
    /\ pc = "stations"
    /\ train_stations' = set_trainstation_positions(free_rails)
    /\ pc' = "fix"
    /\ UNCHANGED <<objVars, argVars, rngVars, sizeVars, placeVars, planVars, connVars, free_rails,
                   warnings, error, histVars>>

\* generate, lines 189-194: _fix_transitions, and the return of the grid and
\* the hints (the transition masks of the grid are not part of this state)
FixTransitions ==
    /\ pc = "fix"
    /\ pc' = "returned"
    /\ UNCHANGED <<objVars, argVars, rngVars, sizeVars, placeVars, planVars, connVars, innerVars,
                   warnings, error, histVars>>

\* what a finished call leaves behind for the comparison with the next one
Outcome ==
    [valid |-> TRUE, np_random |-> np_random, draws |-> draws, pc |-> pc, error |-> error,
     num_resets |-> num_resets, np_random_arg |-> np_random_arg,
     city_positions |-> city_positions, city_orientations |-> city_orientations,
     train_stations |-> train_stations, requests |-> requests, free_rails |-> free_rails]

\* generate is called again on the same object, for the same grid size, with
\* any reset count and any np_random argument
GenerateAgain ==
    /\ pc \in {"returned", "raised"}
    /\ calls < MaxCalls
    /\ calls' = calls + 1
    /\ prev' = Outcome
    /\ num_resets' \in 0..MaxResets
    /\ np_random_arg' \in {None, 1}
    /\ np_random' = NoRng /\ global_draws' = 0 /\ draws' = <<>>
    /\ rail_pairs_in_city' = 0 /\ rails_between_cities' = 0 /\ city_radius' = 0
    /\ max_feasible_cities' = 0
    /\ city_positions' = <<>> /\ allowed_grid' = {} /\ replacements' = 0
    /\ inner_connection_points' = <<>> /\ outer_connection_points' = <<>>
    /\ city_orientations' = <<>>
    /\ set_of_connections' = {} /\ requests' = <<>> /\ new_lines' = <<>>
    /\ free_rails' = <<>> /\ train_stations' = <<>>
    /\ warnings' = {} /\ pc' = "idle" /\ error' = "none"
    /\ UNCHANGED <<objVars, width, height>>

\* -------------------------------------------------------- specifications
Next ==
    \/ Generate
    \/ RandomPlaceCity
    \/ RandomPlaceEnd
    \/ CheckCliques
    \/ CountCities
    \/ CityConnectionPoints
    \/ ConnectCities
    \/ BuildInnerCities
    \/ SetTrainstationPositions
    \/ FixTransitions

\* one generate call, over every configuration
Spec == Init /\ [][Next]_vars

\* two generate calls on one seeded object: the first call of the object
\* (num_resets = 0), then a call with any reset count and np_random argument
InitTwoCalls == InitFrom(TwoCallConfigs)

NextTwoCalls == Next \/ GenerateAgain

SpecTwoCalls == InitTwoCalls /\ [][NextTwoCalls]_vars

\* the configurations of the placement checks: in grid mode every grid of up to
\* MaxSide rows and columns, and the configurations of the layout checks
EvenlyConfigs ==
    [size : (1..MaxSide) \X (1..MaxSide), max_num_cities : 1..MaxNumCities,
     max_rail_pairs_in_city : 0..MaxRailPairs, max_rails_between_cities : {MaxRailsBetween},
     grid_mode : {TRUE}, seed : {None}, num_resets : {0}, np_random : {1}]

InitPlacement == InitFrom(LayoutConfigs \cup EvenlyConfigs)

NextPlacement == Generate \/ RandomPlaceCity \/ RandomPlaceEnd \/ CheckCliques \/ CountCities

\* a generate call up to the list of cities it hands to the connection planning
SpecPlacement == InitPlacement /\ [][NextPlacement]_vars

\* ------------------------------------------------------- line generator
\* the state of the rail generator, which the line generator reads
generateVars ==
    <<max_num_cities, grid_mode, max_rails_between_cities, max_rail_pairs_in_city, seed, argsort_ties,
      path_faults, argVars, rngVars, sizeVars, placeVars, planVars, connVars, innerVars, warnings,
      pc, error, histVars>>
railVars == <<generateVars, cliqueVars, fixVars>>

\* SparseLineGen.generate, lines 102-107
LineCityRadius(n) == IF n \in 0..4 THEN 4 ELSE IF n \in 5..8 THEN 5 ELSE 6

\* a half that is the whole number of stations
HalfOfStations_Whole(num_stations) == num_stations

\* SparseLineGen.generate: city1_num_stations//2, the bound of every index
\* draw and the offset of the upper half of the stations
HalfOfStations(num_stations) == num_stations \div 2

\* SparseLineGen.generate, line 129: the orientation of the city is 0 or 2
NorthSouth(o) == o = 0 \/ o = 2

\* SparseLineGen.generate, lines 129-188: the four station indices of a pair of
\* agents, from the indices they had (old) and the four values drawn, a and b
\* for city1, c and d for city2.  An index no branch assigns keeps its value.
StationIndices(old, positions, orientation, stations, c1, c2, a, b, c, d) ==
    LET h1 == HalfOfStations(Len(stations[c1]))
        h2 == HalfOfStations(Len(stations[c2]))
        row_diff == positions[c2][1] - positions[c1][1]
        col_diff == positions[c2][2] - positions[c1][2]
        r == LineCityRadius(Len(positions))
        v1 == NorthSouth(orientation[c1])
        v2 == NorthSouth(orientation[c2])
        \* the target in the lower half and the next start in the upper, or the reverse
        low2 == [target |-> c, next_start |-> d + h2]
        high2 == [target |-> c + h2, next_start |-> d]
        keep == [target |-> old.agent_target_idx, next_start |-> old.next_agent_start_idx]
        first ==
            IF v1
            THEN IF row_diff > 0
                 THEN [start |-> a, next_target |-> b + h1,
                       two |-> IF v2 THEN (IF row_diff > r + 1 THEN low2 ELSE high2) ELSE keep]
                 ELSE [start |-> a + h1, next_target |-> b,
                       two |-> IF v2 THEN (IF row_diff < (-r) - 1 THEN high2 ELSE low2) ELSE keep]
            ELSE IF col_diff > 0
                 THEN [start |-> a + h1, next_target |-> b,
                       two |-> IF ~v2 THEN (IF col_diff > r + 1 THEN high2 ELSE low2) ELSE keep]
                 ELSE [start |-> a, next_target |-> b + h1,
                       two |-> IF ~v2 THEN (IF col_diff < (-r) - 1 THEN low2 ELSE high2) ELSE keep]
        second ==
            IF v1
            THEN IF ~v2 THEN (IF col_diff > 0 THEN high2 ELSE low2) ELSE first.two
            ELSE IF v2 THEN (IF row_diff > 0 THEN low2 ELSE high2) ELSE first.two
    IN  [agent_start_idx |-> first.start, agent_target_idx |-> second.target,
         next_agent_start_idx |-> second.next_start, next_agent_target_idx |-> first.next_target]

\* SparseLineGen.generate, lines 123-126: the two orientations of a city
PossibleOrientations(orientation, c) == {orientation[c], (orientation[c] + 2) % 4}

\* SparseLineGen.decide_orientation, lines 77-80: the values it can return when
\* check_path_exists confirmed the orientations in feasible
decide_orientation(feasible) == IF feasible # {} THEN feasible ELSE {0}

\* SparseLineGen.generate, lines 190-207: the stations of the agent
\* are looked up, its orientation decided, and the agent appended
AppendAgent(start_city, start_idx, target_city, target_idx) ==
    IF start_idx = None \/ target_idx = None
    THEN /\ line_pc' = "raised" /\ line_error' = "UnboundLocalError"
         /\ UNCHANGED <<agents_position, agents_target, agents_direction, feasible_orientations>>
    ELSE IF \/ start_idx \notin 0..(Len(train_stations[start_city]) - 1)
            \/ target_idx \notin 0..(Len(train_stations[target_city]) - 1)
    THEN /\ line_pc' = "raised" /\ line_error' = "IndexError"
         /\ UNCHANGED <<agents_position, agents_target, agents_direction, feasible_orientations>>
    ELSE LET agent_start == train_stations[start_city][start_idx + 1]
             agent_target == train_stations[target_city][target_idx + 1]
         IN  \E feasible \in SUBSET PossibleOrientations(city_orientations, start_city) :
               \E agent_orientation \in decide_orientation(feasible) :
                 /\ agents_position' = Append(agents_position, agent_start[1])
                 /\ agents_target' = Append(agents_target, agent_target[1])
                 /\ agents_direction' = Append(agents_direction, agent_orientation)
                 /\ feasible_orientations' = Append(feasible_orientations, feasible)
                 /\ UNCHANGED <<line_pc, line_error>>

\* SparseLineGen.generate, lines 94-112: the call, on the hints of a rail
\* generator call that returned
LineGenerate ==
    /\ line_pc = "idle" /\ pc = "returned"
    /\ num_agents' \in 1..MaxAgents
    /\ line_pc' = "agents"
    /\ UNCHANGED <<railVars, malfunctionVars, agents_position, agents_target, agents_direction, city1, city2, station_idx,
                   feasible_orientations, line_error>>

\* SparseLineGen.generate, lines 114-207: one iteration of the loop over the
\* agents (an even agent draws two cities and the four indices, an odd agent
\* runs the other way between the same cities)
LineAgent ==
    /\ line_pc = "agents"
    /\ Len(agents_position) < num_agents
    /\ LET agent_idx == Len(agents_position)
       IN  IF agent_idx % 2 = 0
           THEN \E c1, c2 \in 1..Len(city_positions) :
                  /\ c1 # c2
                  /\ \E a, b \in 0..(HalfOfStations(Len(train_stations[c1])) - 1) :
                       \E c, d \in 0..(HalfOfStations(Len(train_stations[c2])) - 1) :
                         /\ city1' = c1 /\ city2' = c2
                         /\ station_idx' = StationIndices(station_idx, city_positions, city_orientations,
                                                          train_stations, c1, c2, a, b, c, d)
                         /\ AppendAgent(c1, station_idx'.agent_start_idx, c2, station_idx'.agent_target_idx)
           ELSE /\ station_idx' = [station_idx EXCEPT !.agent_start_idx = station_idx.next_agent_start_idx,
                                                      !.agent_target_idx = station_idx.next_agent_target_idx]
                /\ AppendAgent(city2, station_idx'.agent_start_idx, city1, station_idx'.agent_target_idx)
                /\ UNCHANGED <<city1, city2>>
    /\ UNCHANGED <<railVars, malfunctionVars, num_agents>>

\* SparseLineGen.generate, lines 209-222: the speeds, and the Line returned
LineReturn ==
    /\ line_pc = "agents"
    /\ Len(agents_position) = num_agents
    /\ line_pc' = "returned"
    /\ UNCHANGED <<railVars, malfunctionVars, num_agents, agents_position, agents_target, agents_direction, city1, city2,
                   station_idx, feasible_orientations, line_error>>

\* the configurations of the line checks: three cities on the 10 x 27 grid, three
\* cities of four stations in a column on the 34 x 16 grid, four cities in a
\* square on the 18 x 18 grid, and a random layout that goes through the clique
\* test
LineConfigs ==
    {c \in [size : {<<10, 27>>, <<34, 16>>, <<18, 18>>, <<10, 18>>}, max_num_cities : {3, 4, MaxNumCities},
            max_rail_pairs_in_city : 1..MaxRailPairs, max_rails_between_cities : {1},
            grid_mode : BOOLEAN, seed : {None}, num_resets : {0}, np_random : {1}] :
        /\ c.max_num_cities = 3 <=> c.size \in {<<10, 27>>, <<34, 16>>}
        /\ c.max_num_cities = 4 <=> c.size = <<18, 18>>
        /\ c.max_rail_pairs_in_city = 1 <=> c.size # <<34, 16>>
        /\ c.size \in {<<34, 16>>, <<18, 18>>} => c.grid_mode
        /\ c.size = <<10, 18>> => ~c.grid_mode}

InitLine == InitFrom(LineConfigs)

NextLine == Next \/ LineGenerate \/ LineAgent \/ LineReturn

\* one generate call of the rail generator, and on the hints it returns one
\* generate call of the line generator
SpecLine == InitLine /\ [][NextLine]_vars

\* ------------------------------------------------ malfunction generators
\* flatland.envs.step_utils.states.TrainState, imported at line 9
TrainStates ==
    {"WAITING", "READY_TO_DEPART", "MALFUNCTION_OFF_MAP", "MOVING", "STOPPED", "MALFUNCTION", "DONE"}

\* a generator that never considers itself used up
AlreadyBroken_Never(nr_malfunctions) == FALSE

\* single_malfunction_generator, line 228: a malfunction was already given
AlreadyBroken(nr_malfunctions) == nr_malfunctions > 0

\* single_malfunction_generator, lines 238-239: the agent is active and has
\* been called often enough
BreaksNow(state, nr_calls, earliest) ==
    (state = "MOVING" \/ state = "STOPPED") /\ nr_calls >= earliest

\* single_malfunction_generator, lines 214-243: one call of the generator.  The
\* counts of the calls since the last reset are kept beside the closure's own
\* counts, which stop at the malfunction.
SingleMalfunctionGenerator ==
    /\ \E reset \in BOOLEAN, handle \in Handles, state \in TrainStates :
         IF reset
         THEN /\ generator_resets < MaxGeneratorResets
              /\ global_nr_malfunctions' = 0
              /\ malfunction_calls' = [h \in Handles |-> 0]
              /\ generator_call' = [generator |-> "single", reset |-> TRUE, eligible |-> FALSE,
                                    position |-> "none", returned |-> 0]
              /\ calls_since_reset' = [h \in Handles |-> 0]
              /\ eligible_calls' = 0 /\ nonzero_returns' = 0
              /\ generator_resets' = generator_resets + 1
              /\ UNCHANGED malfunctions_total
         ELSE /\ calls_since_reset[0] + calls_since_reset[1] < MaxGeneratorCalls
              /\ calls_since_reset' = [calls_since_reset EXCEPT ![handle] = @ + 1]
              /\ LET eligible == (state \in {"MOVING", "STOPPED"})
                                     /\ calls_since_reset'[handle] >= earlierst_malfunction
                     returned ==
                         IF AlreadyBroken(global_nr_malfunctions) THEN 0
                         ELSE IF BreaksNow(state, malfunction_calls[handle] + 1, earlierst_malfunction)
                         THEN malfunction_duration
                         ELSE 0
                 IN  /\ IF AlreadyBroken(global_nr_malfunctions)
                        THEN UNCHANGED <<global_nr_malfunctions, malfunction_calls>>
                        ELSE /\ malfunction_calls' = [malfunction_calls EXCEPT ![handle] = @ + 1]
                             /\ global_nr_malfunctions' =
                                    IF BreaksNow(state, malfunction_calls'[handle], earlierst_malfunction)
                                    THEN global_nr_malfunctions + 1
                                    ELSE global_nr_malfunctions
                     /\ generator_call' = [generator |-> "single", reset |-> FALSE, eligible |-> eligible,
                                           position |-> "none", returned |-> returned]
                     /\ eligible_calls' = IF eligible THEN eligible_calls + 1 ELSE eligible_calls
                     /\ nonzero_returns' = IF returned # 0 THEN nonzero_returns + 1 ELSE nonzero_returns
                     /\ malfunctions_total' = IF returned # 0 THEN malfunctions_total + 1 ELSE malfunctions_total
              /\ UNCHANGED generator_resets
    /\ UNCHANGED <<railVars, lineVars, earlierst_malfunction, malfunction_duration>>

\* the values of np_random.random_sample, in hundredths
RandomSamples == {0, 4, 5, 12, 19, 20, 48, 49, 50, 80, 81, 99}

\* where the agent is: off the map (position None), at its initial position,
\* or elsewhere on the map
AgentPositions == {"None", "initial", "other"}

\* ParamMalfunctionGen.generate, lines 52-72 and 77: random_array[1] is below
\* malfunction_prob, which is 0.05 at the initial position and 0.2 or 0.5 over
\* the travel time plus one elsewhere
BelowMalfunctionProb(position, r0, r1, travel_time) ==
    IF position = "initial"
    THEN r1 < 5
    ELSE IF r0 <= 48 THEN r1 * (travel_time + 1) < 20 ELSE r1 * (travel_time + 1) < 50

\* durations that start at 1
NumBrokenSteps_FromOne(position, r0, r1, travel_time) ==
    IF position = "None" THEN {0} ELSE 1..max_num_broken_steps

\* ParamMalfunctionGen.generate, lines 74-90: the values num_broken_steps can
\* take (2 and, for i in range(49), i + 2)
NumBrokenSteps(position, r0, r1, travel_time) ==
    IF position = "None" THEN {0}
    ELSE IF BelowMalfunctionProb(position, r0, r1, travel_time) THEN 2..max_num_broken_steps
    ELSE {0}

\* ParamMalfunctionGen.generate, lines 48-92: what it can return for an agent
\* at the position, over the random draws and the travel times
GenerateOutcomes(position) ==
    UNION {NumBrokenSteps(position, r0, r1, travel_time) :
               r0 \in RandomSamples, r1 \in RandomSamples, travel_time \in 0..MaxTravelTime}

\* NoMalfunctionGen, lines 138-140: a ParamMalfunctionGen built on the
\* parameters (0, 0, 0), whose generate (lines 48-92) does not read them
NoMalfunctionGenGenerate ==
    /\ \E position \in AgentPositions :
         \E num_broken_steps \in GenerateOutcomes(position) :
           generator_call' = [generator |-> "NoMalfunctionGen", reset |-> FALSE, eligible |-> FALSE,
                              position |-> position, returned |-> num_broken_steps]
    /\ UNCHANGED <<railVars, lineVars, earlierst_malfunction, malfunction_duration, global_nr_malfunctions,
                   malfunction_calls, calls_since_reset, eligible_calls, nonzero_returns, generator_resets,
                   malfunctions_total>>

\* no_malfunction_generator, lines 180-181: one call of its generator
NoMalfunctionGenerator ==
    /\ generator_call' = [generator |-> "no_malfunction_generator", reset |-> FALSE, eligible |-> FALSE,
                          position |-> "none", returned |-> 0]
    /\ UNCHANGED <<railVars, lineVars, earlierst_malfunction, malfunction_duration, global_nr_malfunctions,
                   malfunction_calls, calls_since_reset, eligible_calls, nonzero_returns, generator_resets,
                   malfunctions_total>>

\* ParamMalfunctionGen.generate, lines 48-92: one call
ParamMalfunctionGenGenerate ==
    /\ \E position \in AgentPositions :
         \E num_broken_steps \in GenerateOutcomes(position) :
           generator_call' = [generator |-> "ParamMalfunctionGen", reset |-> FALSE, eligible |-> FALSE,
                              position |-> position, returned |-> num_broken_steps]
    /\ UNCHANGED <<railVars, lineVars, earlierst_malfunction, malfunction_duration, global_nr_malfunctions,
                   malfunction_calls, calls_since_reset, eligible_calls, nonzero_returns, generator_resets,
                   malfunctions_total>>

\* TestMalfunctionGen.generate, lines 110-130: the values num_broken_steps can
\* take; np_random.rand() is below malfunction_prob = 0.2 / 15
TestNumBrokenSteps(position, r) ==
    IF position = "None" THEN {0}
    ELSE IF r * 15 < 20 THEN 2..max_num_broken_steps
    ELSE {0}

\* TestMalfunctionGen.generate, lines 109-132: one call
TestMalfunctionGenGenerate ==
    /\ \E position \in AgentPositions :
         \E num_broken_steps \in UNION {TestNumBrokenSteps(position, r) : r \in RandomSamples} :
           generator_call' = [generator |-> "TestMalfunctionGen", reset |-> FALSE, eligible |-> FALSE,
                              position |-> position, returned |-> num_broken_steps]
    /\ UNCHANGED <<railVars, lineVars, earlierst_malfunction, malfunction_duration, global_nr_malfunctions,
                   malfunction_calls, calls_since_reset, eligible_calls, nonzero_returns, generator_resets,
                   malfunctions_total>>

\* the rail generator the malfunction checks leave idle
MalfunctionConfigs ==
    {c \in LayoutConfigs : c.size = <<1, 1>> /\ c.max_num_cities = 1 /\ c.max_rail_pairs_in_city = 0
                           /\ c.grid_mode}

\* single_malfunction_generator(earlierst_malfunction, malfunction_duration)
\* has been called, with every pair of arguments
InitMalfunction ==
    /\ InitRail(MalfunctionConfigs)
    /\ CliqueIdle
    /\ FixIdle
    /\ earlierst_malfunction \in 0..MaxEarliest
    /\ malfunction_duration \in 0..MaxDuration
    /\ MalfunctionFresh

NextSingleMalfunction == SingleMalfunctionGenerator

\* any calls of the generator of single_malfunction_generator
SpecSingleMalfunction == InitMalfunction /\ [][NextSingleMalfunction]_vars

NextNoMalfunction == NoMalfunctionGenGenerate \/ NoMalfunctionGenerator

\* any calls of NoMalfunctionGen().generate and of the generator of
\* no_malfunction_generator
SpecNoMalfunction == InitMalfunction /\ [][NextNoMalfunction]_vars

NextParamMalfunction == ParamMalfunctionGenGenerate \/ TestMalfunctionGenGenerate

\* any calls of ParamMalfunctionGen.generate and TestMalfunctionGen.generate
SpecParamMalfunction == InitMalfunction /\ [][NextParamMalfunction]_vars

\* ------------------------------------------------- contains_cliques alone
\* the distance between the centres of neighbouring cities of a lattice: the
\* least the random placement leaves between two cities of one rail pair
LatticeStep == 2 * (CityRadius(1) + 1) + 1

\* city centres on a lattice
Lattice ==
    {<<CityRadius(1) + 1 + LatticeStep * i, CityRadius(1) + 1 + LatticeStep * j>> :
        i \in 0..MaxLatticeRow, j \in 0..MaxLatticeCol}

\* the lists of different city centres that contains_cliques is called with
CliqueInputs ==
    UNION {{s \in [1..n -> Lattice] : \A k, l \in 1..n : k # l => s[k] # s[l]} : n \in 1..MaxNumCities}

\* the generator object whose contains_cliques is called; generate is not
InitCliques ==
    /\ InitRail({c \in LayoutConfigs : c.size = <<1, 1>> /\ c.max_num_cities = MaxNumCities
                                       /\ c.max_rail_pairs_in_city = 0 /\ ~c.grid_mode})
    /\ earlierst_malfunction = 1 /\ malfunction_duration = 1
    /\ MalfunctionFresh
    /\ FixIdle
    /\ clique_positions \in CliqueInputs
    /\ clique_i = 0 /\ clique3_found = FALSE /\ clique_result = FALSE /\ clique_pc = "loop"

\* contains_cliques, lines 218-230: the iteration of the loop for the next i
CliqueIteration ==
    /\ clique_pc = "loop"
    /\ clique_i < Len(clique_positions)
    /\ clique_i' = clique_i + 1
    /\ IF contains_cliques_raises(clique_positions)
       THEN clique_pc' = "raised" /\ UNCHANGED <<clique3_found, clique_result>>
       ELSE LET sort_index == SortIndex(clique_positions, argsort_ties)
            IN  /\ clique3_found' = Clique3At(sort_index, clique_i')
                /\ IF CliqueAt(sort_index, clique_i')
                   THEN clique_result' = TRUE /\ clique_pc' = "returned"
                   ELSE UNCHANGED <<clique_result, clique_pc>>
    /\ UNCHANGED <<generateVars, lineVars, malfunctionVars, fixVars, clique_positions>>

\* contains_cliques, line 231: the loop ended
CliqueReturnFalse ==
    /\ clique_pc = "loop"
    /\ clique_i = Len(clique_positions)
    /\ clique_result' = FALSE /\ clique_pc' = "returned"
    /\ UNCHANGED <<generateVars, lineVars, malfunctionVars, fixVars, clique_positions, clique_i, clique3_found>>

NextCliques == CliqueIteration \/ CliqueReturnFalse

\* one call of contains_cliques, on every list of city centres of the lattice
SpecCliques == InitCliques /\ [][NextCliques]_vars

\* ------------------------------------------------- _fix_transitions alone
\* the lists of at most n cells
CellLists(n) == UNION {[1..k -> FixCells] : k \in 0..n}

\* _fix_transitions is called with city_cells, inter_city_lines and the
\* orientation hints vector_field (-1 where a cell has none)
InitFix ==
    /\ InitRail(MalfunctionConfigs)
    /\ earlierst_malfunction = 1 /\ malfunction_duration = 1
    /\ MalfunctionFresh
    /\ CliqueIdle
    /\ fix_city_cells \in CellLists(MaxFixCells)
    /\ fix_inter_city_lines \in CellLists(MaxFixCells)
    /\ vector_field \in [FixCells -> {-1, 1}]
    /\ rails_to_fix = <<>> /\ rails_fixed = 0 /\ fix_log = <<>> /\ fix_pc = "query"

\* _fix_transitions, line 871
cells_to_fix == fix_city_cells \o fix_inter_city_lines

\* a list that takes every cell queried
RecordInvalid_All(rails, cell, cell_valid, hints) ==
    Append(rails, [cell |-> cell, hint |-> hints[cell]])

\* _fix_transitions, lines 875-880: a cell found invalid is written to
\* rails_to_fix with its hint
RecordInvalid(rails, cell, cell_valid, hints) ==
    IF ~cell_valid THEN Append(rails, [cell |-> cell, hint |-> hints[cell]]) ELSE rails

\* the cells queried so far
Queried == Len(SelectSeq(fix_log, LAMBDA e : e.op = "query"))

\* _fix_transitions, lines 872-880: one iteration of the first loop; what
\* grid_map.cell_neighbours_valid answers is the grid's to decide
FixQuery ==
    /\ fix_pc = "query"
    /\ Queried < Len(cells_to_fix)
    /\ LET cell == cells_to_fix[Queried + 1]
       IN  \E cell_valid \in BOOLEAN :
             /\ fix_log' = Append(fix_log, [op |-> "query", cell |-> cell, valid |-> cell_valid, hint |-> -1])
             /\ rails_to_fix' = RecordInvalid(rails_to_fix, cell, cell_valid, vector_field)
    /\ UNCHANGED <<generateVars, lineVars, malfunctionVars, cliqueVars, fix_city_cells, fix_inter_city_lines,
                   vector_field, rails_fixed, fix_pc>>

\* _fix_transitions, lines 881-882: the first loop ends and the second starts
FixQueriesDone ==
    /\ fix_pc = "query"
    /\ Queried = Len(cells_to_fix)
    /\ fix_pc' = "fix"
    /\ UNCHANGED <<generateVars, lineVars, malfunctionVars, cliqueVars, fix_city_cells, fix_inter_city_lines,
                   vector_field, rails_to_fix, rails_fixed, fix_log>>

\* _fix_transitions, lines 882-883: one iteration of the second loop, a call
\* of grid_map.fix_transitions
FixCell ==
    /\ fix_pc = "fix"
    /\ rails_fixed < Len(rails_to_fix)
    /\ LET entry == rails_to_fix[rails_fixed + 1]
       IN  fix_log' = Append(fix_log, [op |-> "fix", cell |-> entry.cell, valid |-> FALSE, hint |-> entry.hint])
    /\ rails_fixed' = rails_fixed + 1
    /\ UNCHANGED <<generateVars, lineVars, malfunctionVars, cliqueVars, fix_city_cells, fix_inter_city_lines,
                   vector_field, rails_to_fix, fix_pc>>

\* _fix_transitions, line 883: the second loop ends and the function returns
FixReturn ==
    /\ fix_pc = "fix"
    /\ rails_fixed = Len(rails_to_fix)
    /\ fix_pc' = "returned"
    /\ UNCHANGED <<generateVars, lineVars, malfunctionVars, cliqueVars, fix_city_cells, fix_inter_city_lines,
                   vector_field, rails_to_fix, rails_fixed, fix_log>>

NextFix == FixQuery \/ FixQueriesDone \/ FixCell \/ FixReturn

\* one call of _fix_transitions, on every pair of short cell lists
SpecFix == InitFix /\ [][NextFix]_vars

\* ------------------------------------------------------------ properties
\* the call is past the placement of the cities (fallback included)
Placed == pc \in {"planning", "inner", "stations", "fix", "returned"}

\* the call is past _connect_cities (it returned or raised there)
ConnectCitiesRan ==
    /\ Len(city_positions) >= 1
    /\ Len(city_orientations) = Len(city_positions)
    /\ pc \in {"inner", "stations", "fix", "returned", "raised"}

\* the inter-city path requests that start or end at point p
RequestsAt(p) == {k \in 1..Len(requests) : requests[k].start = p \/ requests[k].end = p}

\* the outer connection points of city c
OuterPointsOf(c) == UNION {Range(outer_connection_points[c][d]) : d \in 0..3}

\* the city radius and the infeasibility test as the specification words them
StatedRadius == Max2(1, max_rail_pairs_in_city) + 2
StatedTooSmall ==
    Min2(max_num_cities,
         ((height - 2) \div (2 * (StatedRadius + 1))) * ((width - 2) \div (2 * (StatedRadius + 1)))) < 2

\* C1: generate aborts with the infeasible-layout error (ValueError), before
\* any city is placed or any random value drawn and without returning, if and
\* only if min(max_num_cities, ((height-2) div (2(r+1))) * ((width-2) div (2(r+1)))) < 2
\* with r = max(1, max_rail_pairs_in_city) + 2
C1_AbortsIffInfeasible ==
    pc # "idle" =>
        /\ (error = "ValueError") <=> StatedTooSmall
        /\ city_radius = StatedRadius
        /\ StatedTooSmall =>
              /\ pc = "raised"
              /\ city_positions = <<>> /\ allowed_grid = {} /\ draws = <<>>
              /\ requests = <<>> /\ free_rails = <<>> /\ train_stations = <<>>

\* an abort although two cities were asked for, on a grid too small for them
C1_Witness ==
    /\ pc = "raised" /\ error = "ValueError"
    /\ max_num_cities >= 2 /\ height = 10 /\ width = 17

\* C2: with a seed set, a second generate call on the same grid size makes the
\* same random draws as the first and ends in the same way with the same city
\* positions, orientations, stations and requests, whatever num_resets and
\* np_random it is given
C2_SeededCallsAgree ==
    (prev.valid /\ seed # None) =>
        /\ Len(draws) <= Len(prev.draws)
        /\ \A k \in 1..Len(draws) : draws[k] = prev.draws[k]
        /\ pc \in {"returned", "raised"} =>
              /\ pc = prev.pc /\ error = prev.error
              /\ draws = prev.draws
              /\ city_positions = prev.city_positions
              /\ city_orientations = prev.city_orientations
              /\ train_stations = prev.train_stations
              /\ requests = prev.requests
              /\ free_rails = prev.free_rails

\* a second call that returned, given another reset count and another np_random
C2_Witness ==
    /\ prev.valid /\ pc = "returned" /\ ~grid_mode
    /\ Len(city_positions) = 3 /\ Len(draws) > 3
    /\ num_resets # prev.num_resets /\ np_random_arg # prev.np_random_arg

\* C3: in both placement modes, the grid fallback included, every two distinct
\* city centres are at Chebyshev distance >= 2 * city_radius + 1
C3_CitiesDoNotOverlap ==
    \A i, j \in 1..Len(city_positions) :
        i # j => Chebyshev(city_positions[i], city_positions[j]) >= 2 * city_radius + 1

\* a random placement that left one city, replaced by the evenly spaced one
C3_Witness ==
    /\ Placed /\ ~grid_mode /\ GridFallback \in warnings
    /\ Len(city_positions) >= 2

\* C4: for every layout of two or more cities _connect_cities completes
\* without raising and every city is an endpoint of at least one request
C4_ConnectCitiesCompletes ==
    (ConnectCitiesRan /\ Len(city_positions) >= 2) =>
        /\ error = "none"
        /\ \A c \in 1..Len(city_positions) :
              \E k \in 1..Len(requests) : requests[k].from = c \/ requests[k].to = c

\* C5: over one complete run of _connect_cities no outer connection point is
\* the endpoint of more than one inter-city path request
C5_NoDoubleUse ==
    ConnectCitiesRan =>
        \A c \in 1..Len(city_positions) : \A p \in OuterPointsOf(c) : Cardinality(RequestsAt(p)) <= 1

\* C6: a generate call places the cities again at most once on account of the
\* clique test
C6_AtMostOneReplacement == replacements <= 1

\* C7: with a seed s set, the call for reset count k draws from a source seeded
\* with s + k
C7_SeedFollowsResets ==
    (pc # "idle" /\ seed # None) => np_random = [kind |-> "seeded", seed |-> seed + num_resets]

\* C8 as stated: no value is ever drawn from process-global random state
C8_NoGlobalDraw == global_draws = 0

\* C8: every random choice of a call comes from one generator chosen at the
\* start of the call: RandomState(seed) when a seed is set, else the np_random
\* argument when given; only when both are None is a value drawn from the
\* process-global random state, exactly one, to seed that generator
C8_SourceOfRandomness ==
    pc # "idle" =>
        /\ seed # None => np_random = [kind |-> "seeded", seed |-> seed] /\ global_draws = 0
        /\ (seed = None /\ np_random_arg # None) => np_random.kind = "arg" /\ global_draws = 0
        /\ (seed = None /\ np_random_arg = None) => np_random.kind = "global" /\ global_draws = 1

\* a call without seed and without np_random that returned
C8_Witness ==
    /\ pc = "returned" /\ seed = None /\ np_random_arg = None
    /\ global_draws = 1 /\ Len(city_positions) = 3

\* C9: every planned city has exactly two sides with inner connection points,
\* its orientation d and (d + 2) mod 4; both carry the same even number n of
\* them, 2 <= n <= 2 * rail_pairs_in_city, and the other two sides carry no
\* inner and no outer points
C9_TwoOppositeSides ==
    \A c \in 1..Len(city_orientations) :
        LET d == city_orientations[c]
            o == (d + 2) % 4
            n == Len(inner_connection_points[c][d])
        IN  /\ d \in 0..3
            /\ Len(inner_connection_points[c][o]) = n
            /\ n % 2 = 0 /\ 2 <= n /\ n <= 2 * rail_pairs_in_city
            /\ {s \in 0..3 : inner_connection_points[c][s] # <<>>} = {d, o}
            /\ \A s \in (0..3) \ {d, o} : outer_connection_points[c][s] = <<>>

\* every city planned, one with four points a side and one with two
C9_Witness ==
    /\ pc = "inner" /\ Len(city_orientations) >= 3
    /\ \E c \in 1..Len(city_orientations) : Len(inner_connection_points[c][city_orientations[c]]) = 4
    /\ \E c \in 1..Len(city_orientations) : Len(inner_connection_points[c][city_orientations[c]]) = 2

\* C10: in either placement mode, fewer cities placed than max_feasible_cities
\* come with a warning
C10_ReducedCountWarned ==
    (Placed /\ Len(city_positions) < max_feasible_cities) => warnings # {}

\* four cities at the corners of an axis-parallel square
SquareCorners(positions) ==
    /\ Len(positions) = 4
    /\ \E a \in 0..(height - 1), b \in 0..(width - 1), side \in 1..(height + width) :
          Range(positions) = {<<a, b>>, <<a, b + side>>, <<a + side, b>>, <<a + side, b + side>>}

\* C11: contains_cliques returns False for four well-separated cities at the
\* corners of a square
C11_SquareHasNoClique ==
    (pc = "cliques" /\ SquareCorners(city_positions)) =>
        ~contains_cliques(city_positions, argsort_ties)

\* C12: whatever each path-drawing call of _connect_cities returns (a path, no
\* cell, a path with a wrong end), the function raises nothing on that account
\* and goes on to the remaining points and cities: it raises only for fewer
\* than three cities, generate returns stations and orientations for every
\* city, and a request gives a warning exactly when its line is empty or ends
\* wrongly
C12_RoutingFailureTolerated ==
    ConnectCitiesRan =>
        /\ Len(new_lines) = Len(requests)
        /\ \A k \in 1..Len(new_lines) :
              /\ new_lines[k].warning # "none" <=> new_lines[k].outcome \in {"empty", "mismatch"}
              /\ new_lines[k].warning # "none" => new_lines[k].warning \in warnings
        /\ error # "none" <=> Len(city_positions) < 3
        /\ pc = "returned" =>
              /\ Len(train_stations) = Len(city_positions)
              /\ Len(city_orientations) = Len(city_positions)

\* a call that returned although one line was empty and another ended wrongly
C12_Witness ==
    /\ pc = "returned" /\ Len(city_positions) = 3
    /\ \E k \in 1..Len(new_lines) : new_lines[k].outcome = "empty"
    /\ \E k \in 1..Len(new_lines) : new_lines[k].outcome = "mismatch"
    /\ \E k \in 1..Len(new_lines) : new_lines[k].outcome = "path"

\* C13: every city has as many stations as free-rail tracks, which is the
\* number of inner connection points of its active side; every track has
\* cells, and the k-th station is the cell of index len div 2 of track k,
\* paired with k, so it lies on its track
C13_StationsOnTracks ==
    pc \in {"fix", "returned"} =>
        /\ Len(train_stations) = Len(city_positions)
        /\ Len(free_rails) = Len(city_positions)
        /\ \A c \in 1..Len(city_positions) :
              /\ Len(train_stations[c]) = Len(free_rails[c])
              /\ Len(free_rails[c]) = Len(inner_connection_points[c][city_orientations[c]])
              /\ \A k \in 1..Len(free_rails[c]) :
                    LET track == free_rails[c][k]
                    IN  /\ track # <<>>
                        /\ train_stations[c][k] = <<track[(Len(track) \div 2) + 1], k - 1>>
                        /\ train_stations[c][k][1] \in Range(track)
                        /\ Chebyshev(train_stations[c][k][1], city_positions[c]) <= city_radius

\* stations set for a city of four tracks and for a city of two
C13_Witness ==
    /\ pc = "returned"
    /\ \E c \in 1..Len(train_stations) : Len(train_stations[c]) = 4
    /\ \E c \in 1..Len(train_stations) : Len(train_stations[c]) = 2

\* the inner connection points of city c
InnerPointsOf(c) == UNION {Range(inner_connection_points[c][d]) : d \in 0..3}

\* C14 as stated: no outer connection point of a city is one of the city's own
\* cells, and every inner connection point is
C14_OuterPointsOutside ==
    \A c \in 1..Len(city_orientations) :
        /\ \A p \in OuterPointsOf(c) : p \notin get_cells_in_city(city_positions[c], city_radius)
        /\ \A p \in InnerPointsOf(c) : p \in get_cells_in_city(city_positions[c], city_radius)

\* C14: every outer connection point of a city lies on the border of the city
\* square: it is one of the city's own cells, in the outermost row or column of
\* its side, at Chebyshev distance city_radius from the centre; every inner
\* connection point lies inside the square, off its border
C14_OuterPointsOnBorder ==
    \A c \in 1..Len(city_orientations) :
        LET centre == city_positions[c]
        IN  /\ \A d \in 0..3 : \A p \in Range(outer_connection_points[c][d]) :
                  /\ p \in get_cells_in_city(centre, city_radius)
                  /\ Chebyshev(p, centre) = city_radius
                  /\ d = 0 => p[1] = centre[1] - city_radius
                  /\ d = 1 => p[2] = centre[2] + city_radius
                  /\ d = 2 => p[1] = centre[1] + city_radius
                  /\ d = 3 => p[2] = centre[2] - city_radius
            /\ \A p \in InnerPointsOf(c) :
                  /\ p \in get_cells_in_city(centre, city_radius)
                  /\ Chebyshev(p, centre) < city_radius
            /\ OuterPointsOf(c) # {}

\* every city planned, one of them with four inner points a side
C14_Witness ==
    /\ pc = "inner" /\ Len(city_positions) >= 3
    /\ \E c \in 1..Len(city_orientations) : Cardinality(InnerPointsOf(c)) = 8
    /\ \A c \in 1..Len(city_orientations) : Cardinality(OuterPointsOf(c)) = 4

\* C16 as stated: the stations are set only after _fix_transitions has
\* finished (which it has when generate returns)
C16_FixerBeforeStations == train_stations # <<>> => pc = "returned"

\* C16: generate runs its stages one after the other in the order placement
\* (with the clique test), connection points, inter-city connection, inner
\* cities, stations, transition fixing: what a stage writes is there when the
\* next one starts and nothing of a later stage is; the stations are set
\* before _fix_transitions runs
C16_StagesInOrder ==
    LET N == Len(city_positions)
    IN  /\ pc \in {"idle", "placing", "cliques", "placed"} =>
              /\ city_orientations = <<>> /\ requests = <<>> /\ new_lines = <<>>
              /\ free_rails = <<>> /\ train_stations = <<>>
        /\ pc = "planning" =>
              /\ N >= 1 /\ Len(city_orientations) <= N
              /\ requests = <<>> /\ new_lines = <<>> /\ free_rails = <<>> /\ train_stations = <<>>
        /\ pc = "inner" =>
              /\ Len(city_orientations) = N /\ requests # <<>> /\ Len(new_lines) = Len(requests)
              /\ free_rails = <<>> /\ train_stations = <<>>
        /\ pc = "stations" =>
              /\ Len(city_orientations) = N /\ requests # <<>>
              /\ Len(free_rails) = N /\ train_stations = <<>>
        /\ pc \in {"fix", "returned"} =>
              /\ Len(city_orientations) = N /\ requests # <<>>
              /\ Len(free_rails) = N /\ Len(train_stations) = N

\* _fix_transitions is about to run, and the stations are set
C16_Witness ==
    /\ pc = "fix" /\ Len(train_stations) = Len(city_positions)
    /\ Len(city_positions) >= 3 /\ ~grid_mode

\* the station coordinates the hints give for a city
StationCoordinates(c) == {train_stations[c][t][1] : t \in 1..Len(train_stations[c])}

\* the indices of the stations of a city
StationRange(c) == 0..(Len(train_stations[c]) - 1)

\* C17: the line generator places every agent only at returned station
\* coordinates: it raises no error, after every agent the four station indices
\* are assigned and in the range of the stations of their city, and every
\* agent starts at a station coordinate of one city and has its target at a
\* station coordinate of a different city.
C17_AgentsAtStations ==
    /\ line_error = "none"
    /\ Len(agents_position) > 0 =>
         LET k == Len(agents_position)
             start_city == IF k % 2 = 1 THEN city1 ELSE city2
             target_city == IF k % 2 = 1 THEN city2 ELSE city1
         IN  /\ station_idx.agent_start_idx \in StationRange(start_city)
             /\ station_idx.agent_target_idx \in StationRange(target_city)
             /\ station_idx.next_agent_start_idx \in StationRange(city2)
             /\ station_idx.next_agent_target_idx \in StationRange(city1)
             /\ agents_position[k] = train_stations[start_city][station_idx.agent_start_idx + 1][1]
             /\ agents_target[k] = train_stations[target_city][station_idx.agent_target_idx + 1][1]
    /\ \A k \in 1..Len(agents_position) :
         \E c1, c2 \in 1..Len(city_positions) :
           /\ c1 # c2
           /\ agents_position[k] \in StationCoordinates(c1)
           /\ agents_target[k] \in StationCoordinates(c2)

\* a line of two agents is returned, between cities of four stations, the
\* second agent running back to a station of the upper half
C17_Witness ==
    /\ line_pc = "returned"
    /\ Len(agents_position) = 2
    /\ Len(train_stations[city1]) = 4 /\ Len(train_stations[city2]) = 4
    /\ station_idx.next_agent_target_idx >= 2
    /\ agents_position[2] \in StationCoordinates(city2)
    /\ agents_target[2] \in StationCoordinates(city1)

\* C18: the direction stored for every agent is one of the two orientations of
\* its start city for which check_path_exists returned true.
C18_DirectionConfirmed ==
    \A k \in 1..Len(agents_direction) : agents_direction[k] \in feasible_orientations[k]

\* C19 as stated: between two resets, once a call was made for an agent in
\* state MOVING or STOPPED whose call count since the reset had reached
\* earlierst_malfunction, exactly one call has returned a non-zero malfunction.
C19_ExactlyOneMalfunction ==
    eligible_calls >= 1 => nonzero_returns = 1

\* C19: between two resets at most one call returns a non-zero malfunction;
\* when malfunction_duration is not 0 it is exactly the first call made for an
\* agent in state MOVING or STOPPED whose call count since the reset has
\* reached earlierst_malfunction, and it returns malfunction_duration; every
\* other call returns Malfunction(0), all calls do when malfunction_duration
\* is 0, and a call with reset=True re-arms the generator.
C19_OneMalfunctionPerReset ==
    /\ nonzero_returns <= 1
    /\ malfunction_duration # 0 => (nonzero_returns = 1 <=> eligible_calls >= 1)
    /\ malfunction_duration = 0 => nonzero_returns = 0
    /\ generator_call.generator = "single" =>
         /\ generator_call.returned \in {0, malfunction_duration}
         /\ generator_call.returned # 0 <=>
              /\ ~generator_call.reset
              /\ generator_call.eligible /\ eligible_calls = 1
              /\ malfunction_duration # 0
         /\ generator_call.reset =>
              /\ global_nr_malfunctions = 0
              /\ \A h \in Handles : malfunction_calls[h] = 0
              /\ nonzero_returns = 0 /\ eligible_calls = 0
    /\ (global_nr_malfunctions > 0) <=> (eligible_calls >= 1)

\* after a malfunction and a reset, a second malfunction is returned, to an
\* agent whose calls before the reset do not count
C19_Witness ==
    /\ generator_call.generator = "single"
    /\ generator_call.returned = malfunction_duration /\ malfunction_duration # 0
    /\ generator_resets = 1 /\ malfunctions_total = 2
    /\ earlierst_malfunction = 2
    /\ nonzero_returns = 1

\* C20: every call of NoMalfunctionGen().generate returns Malfunction(0), as
\* every call of the generator of no_malfunction_generator does.
C20_NoMalfunctionGenReturnsZero ==
    generator_call.generator \in {"NoMalfunctionGen", "no_malfunction_generator"} =>
        generator_call.returned = 0

\* C21: on every side of every city the number of outer connection points is
\* at most max_rails_between_cities.
C21_OuterPointsWithinMax ==
    \A c \in 1..Len(outer_connection_points) :
        \A d \in 0..3 : Len(outer_connection_points[c][d]) <= max_rails_between_cities

\* the path requests made between cities a and b, in either direction
RequestsBetween(a, b) ==
    {k \in 1..Len(requests) : {requests[k].from, requests[k].to} = {a, b}}

\* C22: over a run of _connect_cities at most one corridor, one pair of path
\* requests, is made between two cities: a pair is recorded in one direction
\* only, and the requests between the two cities are at most two, made one
\* after the other from the city that recorded the connection.
C22_OneCorridorPerPair ==
    ConnectCitiesRan =>
        \A a, b \in 1..Len(city_positions) :
            a # b =>
                /\ ~(<<a, b>> \in set_of_connections /\ <<b, a>> \in set_of_connections)
                /\ Cardinality(RequestsBetween(a, b)) <= 2
                /\ \A k, l \in RequestsBetween(a, b) :
                      /\ requests[k].from = requests[l].from
                      /\ <<requests[k].from, requests[k].to>> \in set_of_connections
                      /\ k - l \in {-1, 0, 1}

\* a corridor a -> b is recorded and b, whose closest city is a, has made no
\* request of its own towards a
C22_Witness ==
    /\ ConnectCitiesRan /\ error = "none"
    /\ \E a, b \in 1..Len(city_positions) :
          /\ a # b
          /\ <<a, b>> \in set_of_connections
          /\ ClosestNeighbIdx(city_positions, b)[2] = a
          /\ Cardinality(RequestsBetween(a, b)) = 2

\* C23: in a layout of three or more cities every city makes a connection
\* attempt towards its nearest and towards its second-nearest other city,
\* unless the connection of that pair is recorded from the other end.
C23_BothNeighboursAttempted ==
    (ConnectCitiesRan /\ error = "none" /\ Len(city_positions) >= 3) =>
        \A c \in 1..Len(city_positions) :
            \A nbrK \in {2, 3} :
                LET nbr == ClosestNeighbIdx(city_positions, c)[nbrK]
                IN  \/ \E k \in 1..Len(requests) : requests[k].from = c /\ requests[k].to = nbr
                    \/ <<nbr, c>> \in set_of_connections

\* the triple of a city of the call of contains_cliques: the city and its two
\* nearest other cities by Manhattan distance
TripleOf(i) ==
    LET row == SortIndex(clique_positions, argsort_ties)[i]
    IN  {row[1], row[2], row[3]}

\* the two nearest other cities of a city
NearestTwo(i) ==
    LET row == SortIndex(clique_positions, argsort_ties)[i]
    IN  {row[2], row[3]}

\* C24: the 3-clique test of contains_cliques fires at city i exactly when
\* both of i's two nearest cities have the triple of i as their own triple.
C24_Clique3IffNeighboursAgree ==
    (clique_i >= 1 /\ clique_pc \in {"loop", "returned"} /\ Len(clique_positions) >= 3) =>
        (clique3_found <=> \A n \in NearestTwo(clique_i) : TripleOf(n) = TripleOf(clique_i))

\* the offset of slot i among n slots, as the specification writes it
StatedOffset(i, n) ==
    LET x == i - (n \div 2)
    IN  (IF x < 0 THEN -x ELSE x) + (IF x <= 0 THEN 0 ELSE 1) + 1

\* how far inside the border of side d of city c the cell p lies
InwardOffset(c, d, p) ==
    CASE d = 0 -> p[1] - (city_positions[c][1] - city_radius)
      [] d = 1 -> (city_positions[c][2] + city_radius) - p[2]
      [] d = 2 -> (city_positions[c][1] + city_radius) - p[1]
      [] d = 3 -> p[2] - (city_positions[c][2] - city_radius)

\* C25: on every active side, of an even number n of slots between 2 and
\* 2 * rail_pairs_in_city, the inner point of slot i lies
\* |i - n/2| + clip(i - n/2, 0, 1) + 1 cells inside the border, which is at
\* least 1 and at most city_radius - 1, and it is not the inner point of the
\* same slot on the opposite side.
C25_InnerOffsets ==
    \A c \in 1..Len(city_orientations) :
        \A d \in 0..3 :
            LET n == Len(inner_connection_points[c][d])
            IN  \A k \in 1..n :
                    LET offset == InwardOffset(c, d, inner_connection_points[c][d][k])
                    IN  /\ n % 2 = 0 /\ 2 <= n /\ n <= 2 * rail_pairs_in_city
                        /\ offset = StatedOffset(k - 1, n)
                        /\ 1 <= offset /\ offset <= city_radius - 1
                        /\ inner_connection_points[c][d][k] # inner_connection_points[c][(d + 2) % 4][k]

\* a city with four slots a side is planned: its offsets are 3, 2, 1, 3
C25_Witness ==
    \E c \in 1..Len(city_orientations) :
        LET d == city_orientations[c]
        IN  /\ Len(inner_connection_points[c][d]) = 4
            /\ city_radius = 4
            /\ [k \in 1..4 |-> InwardOffset(c, d, inner_connection_points[c][d][k])] = <<3, 2, 1, 3>>

\* the queries and the fix_transitions calls of the log, each in order
QueryLog == SelectSeq(fix_log, LAMBDA e : e.op = "query")
FixLog == SelectSeq(fix_log, LAMBDA e : e.op = "fix")

\* the cells the queries found invalid, with their hints, in query order
InvalidLog ==
    LET invalid == SelectSeq(QueryLog, LAMBDA e : ~e.valid)
    IN  [k \in 1..Len(invalid) |-> [cell |-> invalid[k].cell, hint |-> vector_field[invalid[k].cell]]]

\* C26 as stated: a cell found invalid has its mask overwritten before the
\* next cell is queried, so every fix_transitions call directly follows the
\* query of its cell.
C26_FixedBeforeNextQuery ==
    \A l \in 1..Len(fix_log) :
        fix_log[l].op = "fix" =>
            /\ l > 1
            /\ fix_log[l - 1].op = "query" /\ fix_log[l - 1].cell = fix_log[l].cell
            /\ ~fix_log[l - 1].valid

\* C26: _fix_transitions queries the cells of city_cells followed by
\* inter_city_lines once each, in list order, and only after the last query
\* passes the cells found invalid to fix_transitions, in the order they were
\* found and each with the hint vector_field[cell]; no cell is queried after
\* the first fix_transitions call, and no cell outside the list or found valid
\* is passed to fix_transitions.
C26_QueriesThenFixes ==
    /\ \A k, l \in 1..Len(fix_log) : (k < l /\ fix_log[k].op = "fix") => fix_log[l].op = "fix"
    /\ Len(QueryLog) <= Len(cells_to_fix)
    /\ \A k \in 1..Len(QueryLog) : QueryLog[k].cell = cells_to_fix[k]
    /\ Len(FixLog) <= Len(InvalidLog)
    /\ \A k \in 1..Len(FixLog) :
          FixLog[k].cell = InvalidLog[k].cell /\ FixLog[k].hint = InvalidLog[k].hint
    /\ FixLog # <<>> => Len(QueryLog) = Len(cells_to_fix)
    /\ fix_pc = "returned" => Len(QueryLog) = Len(cells_to_fix) /\ Len(FixLog) = Len(InvalidLog)

\* the call returned after it found a city cell invalid, then queried a path
\* cell that was valid, and then fixed the city cell
C26_Witness ==
    /\ fix_pc = "returned"
    /\ Len(fix_city_cells) >= 1 /\ Len(fix_inter_city_lines) >= 1
    /\ ~QueryLog[1].valid /\ QueryLog[Len(QueryLog)].valid
    /\ Len(FixLog) >= 1 /\ FixLog[1].cell = fix_city_cells[1]

\* the outer points that are the first of their side, the ones a pass of
\* _connect_cities handles while no point of the target is claimed
FirstOuterPointsOf(c) ==
    {outer_connection_points[c][d][1] : d \in {s \in 0..3 : outer_connection_points[c][s] # <<>>}}

\* C27: a source outer point that gets connected is joined to the outer point
\* of the target city closest to it by Manhattan distance among the target's
\* unclaimed points over all four sides; for the first point of a pass these
\* are all the outer points of the target.
C27_JoinedToClosest ==
    ConnectCitiesRan =>
        \A k \in 1..Len(requests) :
            requests[k].start \in FirstOuterPointsOf(requests[k].from) =>
                \A p \in OuterPointsOf(requests[k].to) :
                    get_manhattan_distance(requests[k].start, requests[k].end)
                        <= get_manhattan_distance(requests[k].start, p)

\* C28: ParamMalfunctionGen.generate and TestMalfunctionGen.generate return no
\* malfunction of duration 1: num_broken_steps is 0 or between 2 and 50, and
\* it is 0 whenever agent.position is None.
C28_NeverOneStep ==
    generator_call.generator \in {"ParamMalfunctionGen", "TestMalfunctionGen"} =>
        /\ generator_call.returned = 0 \/ generator_call.returned \in 2..50
        /\ generator_call.position = "None" => generator_call.returned = 0

\* ParamMalfunctionGen.generate returned the longest malfunction, for an agent
\* on the map away from its initial position
C28_Witness ==
    /\ generator_call.generator = "ParamMalfunctionGen"
    /\ generator_call.position = "other"
    /\ generator_call.returned = 50

\* C29: when generate does not raise the infeasible-layout error, the list of
\* cities handed to the connection planning has at least two cities, and the
\* evenly spaced placement gives at least two cities whenever
\* max_feasible_cities is at least 2.
C29_AtLeastTwoCities ==
    /\ Placed => Len(city_positions) >= 2
    /\ (pc # "idle" /\ max_feasible_cities >= 2) =>
          Len(generate_evenly_distr_city_positions(max_feasible_cities, city_radius, width, height)) >= 2

\* a random placement of fewer than two cities was replaced by the evenly
\* spaced one, and the list is handed to the connection planning
C29_Witness ==
    /\ pc = "planning" /\ city_orientations = <<>>
    /\ ~grid_mode /\ GridFallback \in warnings
    /\ city_positions = generate_evenly_distr_city_positions(max_feasible_cities, city_radius, width, height)
    /\ Len(city_positions) >= 2

\* C30: in both placement modes every cell of every city's square (centre +-
\* city_radius in each axis) lies inside the grid with at least one cell of
\* margin: 1 <= row <= height - 2 and 1 <= col <= width - 2.
C30_CitySquaresInsideGrid ==
    \A c \in 1..Len(city_positions) :
        \A cell \in get_cells_in_city(city_positions[c], city_radius) :
            /\ 1 <= cell[1] /\ cell[1] <= height - 2
            /\ 1 <= cell[2] /\ cell[2] <= width - 2

\* a randomly placed city whose square reaches the first row or column the
\* margin allows, next to a second city, handed to the connection planning
C30_Witness ==
    /\ pc = "planning" /\ ~grid_mode /\ GridFallback \notin warnings
    /\ Len(city_positions) >= 2
    /\ \E c \in 1..Len(city_positions) :
          \/ city_positions[c][1] - city_radius = 1
          \/ city_positions[c][2] - city_radius = 1
          \/ city_positions[c][1] + city_radius = height - 2
          \/ city_positions[c][2] + city_radius = width - 2

====
